---- MODULE Spec2Model ----
(***************************************************************************)
(* Naming-convention derivation engine of the SAP build sheet generator.   *)
(*                                                                         *)
(* Python strings are modelled as sequences of one-character strings, so   *)
(* that substring tests ("in"), split, strip, lower/upper and formatting   *)
(* are computed the way the code computes them.  A spreadsheet cell is a   *)
(* record [k, s, n]: k is "nan", "str", "int" or "float" (a float holding  *)
(* the integer n), s the text of a "str" cell.  A Python dict is a         *)
(* sequence of [key, val] records in insertion order.  The result of a     *)
(* call is [exc, val]: exc is "none" or the name of the exception that     *)
(* left the function.                                                      *)
(***************************************************************************)
EXTENDS Integers, Sequences, FiniteSets, TLC

VARIABLES op, src, args, ret, files, sessions, clock, io

vars == <<op, src, args, ret, files, sessions, clock, io>>

(***************************************************************************)
(* Bounds of the model.                                                    *)
(***************************************************************************)
MaxRows == 2
MaxAasCounter == 2

(***************************************************************************)
(* Python string primitives.                                               *)
(***************************************************************************)
UpperAlpha == <<"A", "B", "C", "D", "E", "F", "G", "H", "I", "J", "K", "L", "M", "N", "O", "P", "Q", "R", "S", "T", "U", "V", "W", "X", "Y", "Z">>
LowerAlpha == <<"a", "b", "c", "d", "e", "f", "g", "h", "i", "j", "k", "l", "m", "n", "o", "p", "q", "r", "s", "t", "u", "v", "w", "x", "y", "z">>
Digits == <<"0", "1", "2", "3", "4", "5", "6", "7", "8", "9">>

IndexOf(c, alpha) ==
    IF \E i \in 1..Len(alpha) : alpha[i] = c
    THEN CHOOSE i \in 1..Len(alpha) : alpha[i] = c
    ELSE 0

IsDigit(c) == IndexOf(c, Digits) # 0
IsLowerLetter(c) == IndexOf(c, LowerAlpha) # 0

LowerChar(c) == LET i == IndexOf(c, UpperAlpha) IN IF i = 0 THEN c ELSE LowerAlpha[i]
UpperChar(c) == LET i == IndexOf(c, LowerAlpha) IN IF i = 0 THEN c ELSE UpperAlpha[i]

\* str.lower() and str.upper()
Lower(s) == IF s = <<>> THEN <<>> ELSE [i \in 1..Len(s) |-> LowerChar(s[i])]
Upper(s) == IF s = <<>> THEN <<>> ELSE [i \in 1..Len(s) |-> UpperChar(s[i])]

\* sub in s
Contains(sub, s) ==
    \E i \in 0..(Len(s) - Len(sub)) : SubSeq(s, i + 1, i + Len(sub)) = sub

\* s.split(ch) for a one-character separator
RECURSIVE Split(_, _)
Split(s, ch) ==
    IF ~ \E i \in 1..Len(s) : s[i] = ch
    THEN <<s>>
    ELSE LET i == CHOOSE k \in 1..Len(s) : s[k] = ch /\ \A j \in 1..(k - 1) : s[j] # ch
         IN <<SubSeq(s, 1, i - 1)>> \o Split(SubSeq(s, i + 1, Len(s)), ch)

\* s.strip()
RECURSIVE Strip(_)
Strip(s) ==
    IF s = <<>> THEN <<>>
    ELSE IF Head(s) = " " THEN Strip(Tail(s))
    ELSE IF s[Len(s)] = " " THEN Strip(SubSeq(s, 1, Len(s) - 1))
    ELSE s

\* sep.join(parts)
RECURSIVE Join(_, _)
Join(parts, sep) ==
    IF parts = <<>> THEN <<>>
    ELSE IF Len(parts) = 1 THEN parts[1]
    ELSE parts[1] \o sep \o Join(Tail(parts), sep)

\* str(n) for n >= 0
RECURSIVE IntToStr(_)
IntToStr(n) ==
    IF n < 10 THEN <<Digits[n + 1]>>
    ELSE IntToStr(n \div 10) \o <<Digits[(n % 10) + 1]>>

\* s.zfill(w), also the padding of f"{n:0wd}"
RECURSIVE ZFill(_, _)
ZFill(s, w) == IF Len(s) >= w THEN s ELSE ZFill(<<"0">> \o s, w)

\* f"{n:03d}" and f"{n:02d}"
Format03d(n) == ZFill(IntToStr(n), 3)
Format02d(n) == ZFill(IntToStr(n), 2)

(***************************************************************************)
(* Spreadsheet cells as pandas hands them to the code.                     *)
(***************************************************************************)
NaN == [k |-> "nan", s |-> <<>>, n |-> 0]
StrCell(s) == [k |-> "str", s |-> s, n |-> 0]
IntCell(n) == [k |-> "int", s |-> <<>>, n |-> n]
FloatCell(n) == [k |-> "float", s |-> <<>>, n |-> n]

\* pd.notna(cell)
NotNa(cell) == cell.k # "nan"

\* str(cell)
PyStr(cell) ==
    CASE cell.k = "str" -> cell.s
      [] cell.k = "int" -> IntToStr(cell.n)
      [] cell.k = "float" -> IntToStr(cell.n) \o <<".", "0">>
      [] OTHER -> <<"n", "a", "n">>

\* truth value of a cell
Truthy(cell) ==
    CASE cell.k = "str" -> cell.s # <<>>
      [] cell.k = "nan" -> TRUE
      [] OTHER -> cell.n # 0

\* d[key] = val on an insertion-ordered dict
DictSet(d, key, val) ==
    IF \E i \in 1..Len(d) : d[i].key = key
    THEN [i \in 1..Len(d) |-> IF d[i].key = key THEN [key |-> key, val |-> val] ELSE d[i]]
    ELSE Append(d, [key |-> key, val |-> val])

Entry(s, code) == [key |-> StrCell(s), val |-> code]

\* The({F(x) : x \in {e}}) is LET x == e IN F(x), with e evaluated once
The(S) == CHOOSE x \in S : TRUE

Ok(v) == [exc |-> "none", val |-> v]
Raised(e) == [exc |-> e, val |-> <<>>]

\* an optional integer argument: None, or the integer n
None == [given |-> FALSE, n |-> 0]
Some(n) == [given |-> TRUE, n |-> n]

(***************************************************************************)
(* String constants of utils.py and excel_processor.py.                    *)
(***************************************************************************)
s_AAS == <<"A", "A", "S">>
s_Amsterdam == <<"A", "m", "s", "t", "e", "r", "d", "a", "m">>
s_Dublin == <<"D", "u", "b", "l", "i", "n">>
s_NFS == <<"N", "F", "S">>
s_HANA_DB == <<"H", "A", "N", "A", " ", "D", "B">>
s_SQL_DB == <<"S", "Q", "L", " ", "D", "B">>
s_ASCS == <<"A", "S", "C", "S">>
s_Central == <<"C", "e", "n", "t", "r", "a", "l">>
s_PAS == <<"P", "A", "S">>
s_SCS == <<"S", "C", "S">>
s_AAS_Amsterdam == <<"A", "A", "S", "-", "A", "m", "s", "t", "e", "r", "d", "a", "m">>
s_AAS_Dublin == <<"A", "A", "S", "-", "D", "u", "b", "l", "i", "n">>
s_unilever == <<".", "u", "n", "i", "l", "e", "v", "e", "r", ".", "c", "o", "m">>
s_eu == <<"e", "u">>

(***************************************************************************)
(* utils.generate_service_model_names                                      *)
(***************************************************************************)
\* region_mapping.get(sap_region, "x") inside generate_service_model_names
RegionLetterInline(sap_region) ==
    CASE sap_region = "Sirius" -> "e"
      [] sap_region = "U2K2" -> "a"
      [] sap_region = "Cordillera" -> "t"
      [] sap_region = "Global" -> "o"
      [] sap_region = "POC/Model Env" -> "x"
      [] OTHER -> "x"

\* the fallback identifier mapping of the except branch
DnsFallback ==
    << Entry(s_NFS, <<"0", "0", "0", "a">>),
       Entry(s_HANA_DB, <<"0", "0", "1", "a">>),
       Entry(s_SQL_DB, <<"0", "0", "1", "a">>),
       Entry(s_ASCS, <<"0", "0", "2", "a">>),
       Entry(s_Central, <<"0", "0", "2", "a">>),
       Entry(s_PAS, <<"0", "5", "1", "a">>),
       Entry(s_SCS, <<"0", "0", "3", "a">>),
       Entry(s_AAS_Amsterdam, <<"1", "0", "2", "a">>),
       Entry(s_AAS_Dublin, <<"2", "0", "2", "a">>) >>

\* re.search(r'\d{3}[a-z]', s): the leftmost match, or "" when there is none
RegexCode(s) ==
    LET hit(i) == /\ IsDigit(s[i]) /\ IsDigit(s[i + 1]) /\ IsDigit(s[i + 2])
                  /\ IsLowerLetter(s[i + 3])
        at == {i \in 1..(Len(s) - 3) : hit(i)}
    IN IF at = {} THEN <<>>
       ELSE LET i == CHOOSE k \in at : \A j \in at : k <= j IN SubSeq(s, i, i + 3)

\* the code taken from the FQDN Example text
CodeFromFqdn(fq) ==
    LET parts == Split(fq, "<")
    IN IF Len(parts) >= 2 /\ Contains(<<">">>, parts[2])
       THEN RegexCode(Split(parts[2], ">")[2])
       ELSE <<>>

\* the DNS code of one sheet row, or the exception raised while reading it
RowDnsCode(row, cols) ==
    IF "No." \in cols /\ NotNa(row.No)
    THEN Ok(Strip(PyStr(row.No)))
    ELSE IF "FQDN Example" \notin cols THEN Raised("KeyError")
    ELSE LET fq == IF NotNa(row.Fqdn) THEN row.Fqdn ELSE StrCell(<<>>)
         IN IF ~ Truthy(fq) THEN Ok(<<>>)
            ELSE IF fq.k # "str" THEN Raised("AttributeError")
            ELSE Ok(CodeFromFqdn(fq.s))

\* the loop over dns_df.iterrows()
RECURSIVE ReadDnsRows(_, _, _)
ReadDnsRows(rows, cols, d) ==
    IF rows = <<>> THEN Ok(d)
    ELSE IF "Identifier" \notin cols THEN Raised("KeyError")
    ELSE LET row == Head(rows)
         IN IF ~ NotNa(row.Identifier) THEN ReadDnsRows(Tail(rows), cols, d)
            ELSE LET c == RowDnsCode(row, cols)
                 IN IF c.exc # "none" THEN c
                    ELSE ReadDnsRows(Tail(rows), cols, DictSet(d, row.Identifier, c.val))

\* TRUE when the try block fails and the except branch substitutes the fallback
DnsReadFails(sheet) ==
    \/ ~ sheet.readable
    \/ ReadDnsRows(sheet.rows, sheet.cols, <<>>).exc # "none"

\* identifier_mapping as the try/except leaves it
LoadIdentifierMapping(sheet) ==
    IF DnsReadFails(sheet) THEN DnsFallback
    ELSE ReadDnsRows(sheet.rows, sheet.cols, <<>>).val

AmsterdamBase == 102
DublinBase == 202

\* base_number chosen from the city
AasBaseNumber(city) ==
    IF Contains(s_Amsterdam, city) THEN AmsterdamBase
    ELSE IF Contains(s_Dublin, city) THEN DublinBase
    ELSE AmsterdamBase

\* new_dns_code of the aas_counter-th AAS server
AasDnsCode(city, n) == Format03d(AasBaseNumber(city) + n - 1) \o <<"a">>

\* the city test applied to an identifier
CityMatches(identifier, city) ==
    \/ Contains(city, identifier)
    \/ (Contains(s_Amsterdam, identifier) /\ Contains(s_Amsterdam, city))
    \/ (Contains(s_Dublin, identifier) /\ Contains(s_Dublin, city))

\* "AAS" in identifier and (city test)
AasCityMatch(identifier, city) == Contains(s_AAS, identifier) /\ CityMatches(identifier, city)

\* A loop "for identifier in identifier_mapping: if test(identifier): ...; break".
\* The result is the position of the first key passing the test, 0 when the loop
\* ends without a break, and -1 when the loop reaches a key that is not a string
\* and the test applies a string operation to it (TypeError).
FirstKey(d, Test(_), touches) ==
    LET hit(i) == d[i].key.k = "str" /\ Test(d[i].key.s)
        bad(i) == touches /\ d[i].key.k # "str"
        stop == {i \in 1..Len(d) : hit(i) \/ bad(i)}
    IN IF stop = {} THEN 0
       ELSE LET m == CHOOSE k \in stop : \A j \in stop : k <= j
            IN IF bad(m) THEN -1 ELSE m

\* the AAS renumbering step: the mapping after it, or TypeError
UpdateAasCode(d, server_role, city, aas_counter) ==
    IF ~ (Contains(s_AAS, server_role) /\ aas_counter.given) THEN Ok(d)
    ELSE LET m == FirstKey(d, LAMBDA id : AasCityMatch(id, city), TRUE)
         IN IF m = -1 THEN Raised("TypeError")
            ELSE IF m = 0 THEN Ok(d)
            ELSE Ok([d EXCEPT ![m].val = AasDnsCode(city, aas_counter.n)])

\* ModelName with the SID left as typed
ModelNameKeepCase(region_letter, sid, dns_code, region_code) ==
    <<region_letter>> \o sid \o dns_code \o <<".">> \o region_code \o s_unilever

\* f"{region_letter}{sid.lower()}{dns_code}.{region_code}.unilever.com"
ModelName(region_letter, sid, dns_code, region_code) ==
    <<region_letter>> \o Lower(sid) \o dns_code \o <<".">> \o region_code \o s_unilever

\* matched_identifier of one sub-role of a combined role
MatchCombined(d, role, city) ==
    IF Contains(s_AAS, role)
    THEN FirstKey(d, LAMBDA id : AasCityMatch(id, city), TRUE)
    ELSE FirstKey(d, LAMBDA id : Contains(id, role), TRUE)

\* matched_identifier of a single role: exact match first, then partial match
MatchSingle(d, server_role, city) ==
    LET exact == IF Contains(s_AAS, server_role)
                 THEN FirstKey(d, LAMBDA id : id = server_role /\ CityMatches(id, city), FALSE)
                 ELSE FirstKey(d, LAMBDA id : id = server_role, FALSE)
        found == exact # 0 /\ d[exact].key.s # <<>>
    IN IF found THEN exact
       ELSE IF Contains(s_AAS, server_role)
       THEN FirstKey(d, LAMBDA id : AasCityMatch(id, city), TRUE)
       ELSE FirstKey(d, LAMBDA id : Contains(id, server_role), TRUE)

\* "matched_identifier and identifier_mapping[matched_identifier]"
HasCode(d, m) == m > 0 /\ d[m].key.s # <<>> /\ d[m].val # <<>>

\* the model names of the sub-roles of a combined role, in order, or TypeError
RECURSIVE CombinedNames(_, _, _, _, _, _)
CombinedNames(d, roles, city, region_letter, sid, region_code) ==
    IF roles = <<>> THEN Ok(<<>>)
    ELSE LET m == MatchCombined(d, Strip(Head(roles)), city)
         IN IF m = -1 THEN Raised("TypeError")
            ELSE LET rest == CombinedNames(d, Tail(roles), city, region_letter, sid, region_code)
                     here == IF HasCode(d, m)
                             THEN <<ModelName(region_letter, sid, d[m].val, region_code)>>
                             ELSE <<>>
                 IN IF rest.exc # "none" THEN rest ELSE Ok(here \o rest.val)

generate_service_model_names(server_role, sid, sap_region, city, region_code, sheet, aas_counter) ==
    LET region_letter == RegionLetterInline(sap_region)
        upd == UpdateAasCode(LoadIdentifierMapping(sheet), server_role, city, aas_counter)
        d == upd.val
    IN IF upd.exc # "none" THEN upd
       ELSE IF Contains(<<"+">>, server_role)
       THEN LET names == CombinedNames(d, Split(server_role, "+"), city, region_letter, sid, region_code)
            IN IF names.exc # "none" THEN names ELSE Ok(Join(names.val, <<";", " ">>))
       ELSE LET m == MatchSingle(d, server_role, city)
            IN IF m = -1 THEN Raised("TypeError")
               ELSE IF HasCode(d, m)
               THEN Ok(ModelName(region_letter, sid, d[m].val, region_code))
               ELSE Ok(<<>>)

(***************************************************************************)
(* excel_processor.generate_service_model_names                            *)
(***************************************************************************)
\* region_mapping.get(sap_region, "x") inside generate_service_model_names
EP_RegionLetterInline(sap_region) ==
    CASE sap_region = "Sirius" -> "e"
      [] sap_region = "U2K2" -> "a"
      [] sap_region = "Cordillera" -> "t"
      [] sap_region = "Global" -> "o"
      [] sap_region = "POC/Model Env" -> "x"
      [] OTHER -> "x"

\* the fallback identifier mapping of the except branch
EP_DnsFallback ==
    << Entry(s_NFS, <<"0", "5", "1">>),
       Entry(s_HANA_DB, <<"0", "0", "1">>),
       Entry(s_SQL_DB, <<"0", "0", "1">>),
       Entry(s_ASCS, <<"0", "0", "2">>),
       Entry(s_Central, <<"0", "0", "2">>),
       Entry(s_PAS, <<"0", "0", "0">>),
       Entry(s_SCS, <<"0", "0", "3">>) >>

\* re.search(r'\d{3}', s): the leftmost match, or "" when there is none
EP_RegexNumber(s) ==
    LET hit(i) == IsDigit(s[i]) /\ IsDigit(s[i + 1]) /\ IsDigit(s[i + 2])
        at == {i \in 1..(Len(s) - 2) : hit(i)}
    IN IF at = {} THEN <<>>
       ELSE LET i == CHOOSE k \in at : \A j \in at : k <= j IN SubSeq(s, i, i + 2)

\* the number taken from the FQDN Example text
EP_NumberFromFqdn(fq) ==
    LET parts == Split(fq, "<")
    IN IF Len(parts) >= 2 /\ Contains(<<">">>, parts[2])
       THEN EP_RegexNumber(Split(parts[2], ">")[2])
       ELSE <<>>

\* the number of one sheet row, or the exception raised while reading it
EP_RowNumber(row, cols) ==
    IF "No." \in cols /\ NotNa(row.No)
    THEN Ok(ZFill(PyStr(row.No), 3))
    ELSE IF "FQDN Example" \notin cols THEN Raised("KeyError")
    ELSE LET fq == IF NotNa(row.Fqdn) THEN row.Fqdn ELSE StrCell(<<>>)
         IN IF ~ Truthy(fq) THEN Ok(<<>>)
            ELSE IF fq.k # "str" THEN Raised("AttributeError")
            ELSE Ok(EP_NumberFromFqdn(fq.s))

\* the loop over dns_df.iterrows()
RECURSIVE EP_ReadDnsRows(_, _, _)
EP_ReadDnsRows(rows, cols, d) ==
    IF rows = <<>> THEN Ok(d)
    ELSE IF "Identifier" \notin cols THEN Raised("KeyError")
    ELSE LET row == Head(rows)
         IN IF ~ NotNa(row.Identifier) THEN EP_ReadDnsRows(Tail(rows), cols, d)
            ELSE LET c == EP_RowNumber(row, cols)
                 IN IF c.exc # "none" THEN c
                    ELSE EP_ReadDnsRows(Tail(rows), cols, DictSet(d, row.Identifier, c.val))

\* TRUE when the try block fails and the except branch substitutes the fallback
EP_DnsReadFails(sheet) ==
    \/ ~ sheet.readable
    \/ EP_ReadDnsRows(sheet.rows, sheet.cols, <<>>).exc # "none"

\* identifier_mapping as the try/except leaves it
EP_LoadIdentifierMapping(sheet) ==
    IF EP_DnsReadFails(sheet) THEN EP_DnsFallback
    ELSE EP_ReadDnsRows(sheet.rows, sheet.cols, <<>>).val

\* f"{region_letter}{sid.lower()}{number}.{region_code}.unilever.com"
EP_ModelName(region_letter, sid, number, region_code) ==
    <<region_letter>> \o Lower(sid) \o number \o <<".">> \o region_code \o s_unilever

\* matched_identifier: the first identifier that is a substring of the role
EP_Match(d, role) == FirstKey(d, LAMBDA id : Contains(id, role), TRUE)

\* the model names of the sub-roles of a combined role, in order, or TypeError
RECURSIVE EP_CombinedNames(_, _, _, _, _)
EP_CombinedNames(d, roles, region_letter, sid, region_code) ==
    IF roles = <<>> THEN Ok(<<>>)
    ELSE LET m == EP_Match(d, Strip(Head(roles)))
         IN IF m = -1 THEN Raised("TypeError")
            ELSE LET rest == EP_CombinedNames(d, Tail(roles), region_letter, sid, region_code)
                     here == IF HasCode(d, m)
                             THEN <<EP_ModelName(region_letter, sid, d[m].val, region_code)>>
                             ELSE <<>>
                 IN IF rest.exc # "none" THEN rest ELSE Ok(here \o rest.val)

EP_generate_service_model_names(server_role, sid, sap_region, region_code, sheet) ==
    LET region_letter == EP_RegionLetterInline(sap_region)
        d == EP_LoadIdentifierMapping(sheet)
    IN IF Contains(<<"+">>, server_role)
       THEN LET names == EP_CombinedNames(d, Split(server_role, "+"), region_letter, sid, region_code)
            IN IF names.exc # "none" THEN names ELSE Ok(Join(names.val, <<";", " ">>))
       ELSE LET m == EP_Match(d, server_role)
            IN IF m = -1 THEN Raised("TypeError")
               ELSE IF HasCode(d, m)
               THEN Ok(EP_ModelName(region_letter, sid, d[m].val, region_code))
               ELSE Ok(<<>>)

(***************************************************************************)
(* utils.get_instance_number                                               *)
(***************************************************************************)
s_SAP_ == <<"S", "A", "P", " ">>
s_SAP_AAS1n == <<"S", "A", "P", " ", "A", "A", "S", "1", ".", ".", "n">>
s_Standalone == <<"S", "t", "a", "n", "d", "a", "l", "o", "n", "e">>
s_Clustered == <<"C", "l", "u", "s", "t", "e", "r", "e", "d">>
s_Production == <<"P", "r", "o", "d", "u", "c", "t", "i", "o", "n">>
s_HA == <<"-", "H", "A">>
s_SAP_HANA_DB == <<"S", "A", "P", " ", "H", "A", "N", "A", " ", "D", "B">>
s_SAP_ASCS == <<"S", "A", "P", " ", "A", "S", "C", "S">>
s_SAP_SCS == <<"S", "A", "P", " ", "S", "C", "S">>
s_SAP_PAS == <<"S", "A", "P", " ", "P", "A", "S">>
s_SAP_Web_Dispatcher == <<"S", "A", "P", " ", "W", "e", "b", " ", "D", "i", "s", "p", "a", "t", "c", "h", "e", "r">>
s_SAP_ERS_ABAP == <<"S", "A", "P", " ", "E", "R", "S", " ", "-", " ", "A", "B", "A", "P">>
s_SAP_ERS_JAVA == <<"S", "A", "P", " ", "E", "R", "S", " ", "-", " ", "J", "A", "V", "A">>

\* {"Non-Production": np, "Production & DR": pr}
EnvValues(np, pr) == [NonProduction |-> np, ProductionDR |-> pr]

\* one entry of a dict with string keys
KV(k, v) == [key |-> k, val |-> v]

\* EnvColumn with an equality test in place of the substring test
EnvColumnExact(environment_type) ==
    IF environment_type = s_Production THEN "Production & DR" ELSE "Non-Production"

\* env_column
EnvColumn(environment_type) ==
    IF Contains(s_Production, environment_type) THEN "Production & DR" ELSE "Non-Production"

\* is_clustered
IsClustered(server_role, environment_type) ==
    Contains(s_HA, server_role) /\ Contains(s_Production, environment_type)

\* values[env_column]
ColumnValue(values, env_column) ==
    IF env_column = "Production & DR" THEN values.ProductionDR ELSE values.NonProduction

\* nonprod_clean / prod_clean of a cell
CleanNumber(cell) ==
    IF ~ NotNa(cell) THEN <<>>
    ELSE IF cell.k = "float" THEN Format02d(cell.n)
    ELSE Strip(PyStr(cell))

\* key in d, and d[key], for a dict with string keys
HasKey(d, key) == \E i \in 1..Len(d) : d[i].key = key
Lookup(d, key) == d[CHOOSE i \in 1..Len(d) : d[i].key = key].val

\* the loop over df.iterrows() of the "Instance Number" sheet
RECURSIVE ReadInstanceRows(_, _, _)
ReadInstanceRows(rows, ncols, d) ==
    IF rows = <<>> THEN Ok(d)
    ELSE IF ncols < 4 THEN Raised("IndexError")
    ELSE LET row == Head(rows)
         IN IF NotNa(row.Server) /\ Strip(PyStr(row.Server)) # <<>> /\ NotNa(row.Type)
            THEN LET server_key == Strip(PyStr(row.Server))
                     type_key == Strip(PyStr(row.Type))
                     inner == IF HasKey(d, server_key) THEN Lookup(d, server_key) ELSE <<>>
                     values == EnvValues(CleanNumber(row.NonProd), CleanNumber(row.Prod))
                 IN ReadInstanceRows(Tail(rows), ncols,
                                     DictSet(d, server_key, DictSet(inner, type_key, values)))
            ELSE ReadInstanceRows(Tail(rows), ncols, d)

\* the default mapping of the except branch
InstanceFallback ==
    << KV(s_SAP_HANA_DB,
          << KV(s_Standalone, EnvValues(<<"0", "0">>, <<"0", "0">>)),
             KV(s_Clustered, EnvValues(<<"0", "0">>, <<"0", "0">>)) >>),
       KV(s_SAP_ASCS,
          << KV(s_Standalone, EnvValues(<<"0", "1">>, <<"2", "1">>)),
             KV(s_Clustered, EnvValues(<<"0", "1">>, <<"2", "1">>)) >>),
       KV(s_SAP_SCS,
          << KV(s_Standalone, EnvValues(<<"0", "2">>, <<"2", "2">>)),
             KV(s_Clustered, EnvValues(<<"0", "2">>, <<"2", "2">>)) >>),
       KV(s_SAP_PAS,
          << KV(s_Standalone, EnvValues(<<"0", "0">>, <<"2", "0">>)),
             KV(s_Clustered, EnvValues(<<"0", "0">>, <<"2", "0">>)) >>),
       KV(s_SAP_AAS1n,
          << KV(s_Standalone, EnvValues(<<"0", "0">>, <<"2", "0">>)),
             KV(s_Clustered, EnvValues(<<"0", "0">>, <<"2", "0">>)) >>),
       KV(s_SAP_Web_Dispatcher,
          << KV(s_Standalone, EnvValues(<<"1", "0">>, <<"2", "0">>)),
             KV(s_Clustered, EnvValues(<<"1", "0">>, <<"2", "0">>)) >>),
       KV(s_SAP_ERS_ABAP,
          << KV(s_Clustered, EnvValues(<<"3", "1">>, <<"3", "1">>)) >>),
       KV(s_SAP_ERS_JAVA,
          << KV(s_Clustered, EnvValues(<<"3", "2">>, <<"3", "2">>)) >>) >>

\* TRUE when the try block fails and the except branch substitutes the default
InstanceReadFails(sheet) ==
    \/ ~ sheet.readable
    \/ ReadInstanceRows(sheet.rows, sheet.ncols, <<>>).exc # "none"

\* instance_mapping as the try/except leaves it
LoadInstanceMapping(sheet) ==
    IF InstanceReadFails(sheet) THEN InstanceFallback
    ELSE ReadInstanceRows(sheet.rows, sheet.ncols, <<>>).val

\* role.split("-")[0] if "-" in role else role
BaseRole(role) == IF Contains(<<"-">>, role) THEN Split(role, "-")[1] ELSE role

\* matched_role: the position of the first mapped_role with
\* mapped_role == sap_role or base_role.upper() in mapped_role.upper(); 0 for None
MatchedRole(d, sap_role, base_role) ==
    LET hit(i) == d[i].key = sap_role \/ Contains(Upper(base_role), Upper(d[i].key))
        at == {i \in 1..Len(d) : hit(i)}
    IN IF at = {} THEN 0 ELSE CHOOSE k \in at : \A j \in at : k <= j

\* "if matched_role": None and the empty string are false
RoleFound(d, m) == m > 0 /\ d[m].key # <<>>

\* the instance numbers of the sub-roles of a combined role, in order
RECURSIVE CombinedInstanceNumbers(_, _, _, _)
CombinedInstanceNumbers(d, roles, is_clustered, env_column) ==
    IF roles = <<>> THEN <<>>
    ELSE LET role_clean == Strip(Head(roles))
             base_role == BaseRole(role_clean)
             m == MatchedRole(d, s_SAP_ \o base_role, base_role)
             config_type == IF is_clustered THEN s_Clustered ELSE s_Standalone
             here == IF RoleFound(d, m) /\ HasKey(d[m].val, config_type)
                     THEN <<ColumnValue(Lookup(d[m].val, config_type), env_column)>>
                     ELSE <<>>
         IN here \o CombinedInstanceNumbers(d, Tail(roles), is_clustered, env_column)

\* SingleInstanceNumber without the fallback to the Standalone entry
SingleInstanceNumberNoFallback(d, server_role, is_clustered, env_column) ==
    LET base_role == BaseRole(server_role)
        sap_role == IF Upper(base_role) = s_AAS THEN s_SAP_AAS1n ELSE s_SAP_ \o base_role
        m == MatchedRole(d, sap_role, base_role)
        config_type == IF is_clustered THEN s_Clustered ELSE s_Standalone
    IN IF ~ RoleFound(d, m) THEN <<>>
       ELSE IF HasKey(d[m].val, config_type)
       THEN ColumnValue(Lookup(d[m].val, config_type), env_column)
       ELSE <<>>

\* the instance number of a single role
SingleInstanceNumber(d, server_role, is_clustered, env_column) ==
    LET base_role == BaseRole(server_role)
        sap_role == IF Upper(base_role) = s_AAS THEN s_SAP_AAS1n ELSE s_SAP_ \o base_role
        m == MatchedRole(d, sap_role, base_role)
        config_type == IF is_clustered THEN s_Clustered ELSE s_Standalone
    IN IF ~ RoleFound(d, m) THEN <<>>
       ELSE IF HasKey(d[m].val, config_type)
       THEN ColumnValue(Lookup(d[m].val, config_type), env_column)
       ELSE IF HasKey(d[m].val, s_Standalone)
       THEN ColumnValue(Lookup(d[m].val, s_Standalone), env_column)
       ELSE <<>>

get_instance_number(server_role, environment_type, sheet) ==
    LET env_column == EnvColumn(environment_type)
        is_clustered == IsClustered(server_role, environment_type)
        d == LoadInstanceMapping(sheet)
    IN IF Contains(<<"+">>, server_role)
       THEN Ok(Join(CombinedInstanceNumbers(d, Split(server_role, "+"), is_clustered, env_column),
                    <<",">>))
       ELSE Ok(SingleInstanceNumber(d, server_role, is_clustered, env_column))

(***************************************************************************)
(* Region letter and environment code tables (utils.py, excel_processor.py) *)
(***************************************************************************)
s_Fix_Development == <<"F", "i", "x", " ", "D", "e", "v", "e", "l", "o", "p", "m", "e", "n", "t">>
s_Project_Development == <<"P", "r", "o", "j", "e", "c", "t", " ", "D", "e", "v", "e", "l", "o", "p", "m", "e", "n", "t">>
s_Fix_Quality == <<"F", "i", "x", " ", "Q", "u", "a", "l", "i", "t", "y">>
s_Project_Quality == <<"P", "r", "o", "j", "e", "c", "t", " ", "Q", "u", "a", "l", "i", "t", "y">>
s_Training == <<"T", "r", "a", "i", "n", "i", "n", "g">>
s_Fix_Performance == <<"F", "i", "x", " ", "P", "e", "r", "f", "o", "r", "m", "a", "n", "c", "e">>
s_Project_performance == <<"P", "r", "o", "j", "e", "c", "t", " ", "p", "e", "r", "f", "o", "r", "m", "a", "n", "c", "e">>
s_Project_UAT == <<"P", "r", "o", "j", "e", "c", "t", " ", "U", "A", "T">>
s_Fix_Regression == <<"F", "i", "x", " ", "R", "e", "g", "r", "e", "s", "s", "i", "o", "n">>
s_Sandbox == <<"S", "a", "n", "d", "b", "o", "x">>

\* get_sap_region_letter with the entry of Global lost: Global gets the default
get_sap_region_letter_no_global(sap_region) ==
    CASE sap_region = "Sirius" -> "e"
      [] sap_region = "U2K2" -> "a"
      [] sap_region = "Cordillera" -> "t"
      [] sap_region = "POC/Model Env" -> "x"
      [] OTHER -> "x"

\* utils.get_sap_region_letter
get_sap_region_letter(sap_region) ==
    CASE sap_region = "Sirius" -> "e"
      [] sap_region = "U2K2" -> "a"
      [] sap_region = "Cordillera" -> "t"
      [] sap_region = "Global" -> "o"
      [] sap_region = "POC/Model Env" -> "x"
      [] OTHER -> "x"

\* excel_processor.get_sap_region_letter
EP_get_sap_region_letter(sap_region) ==
    CASE sap_region = "Sirius" -> "e"
      [] sap_region = "U2K2" -> "a"
      [] sap_region = "Cordillera" -> "t"
      [] sap_region = "Global" -> "o"
      [] sap_region = "POC/Model Env" -> "x"
      [] OTHER -> "x"

\* dict.get(key, default) on a dict with string keys
DictGet(d, key, default) == IF HasKey(d, key) THEN Lookup(d, key) ELSE default

\* environment_mapping of utils.get_environment_code
EnvironmentMapping ==
    << KV(s_Fix_Development, "d"), KV(s_Project_Development, "d"),
       KV(s_Fix_Quality, "q"), KV(s_Project_Quality, "q"), KV(s_Training, "q"),
       KV(s_Fix_Performance, "q"), KV(s_Project_performance, "q"), KV(s_Project_UAT, "q"),
       KV(s_Fix_Regression, "u"), KV(s_Sandbox, "s"), KV(s_Production, "p") >>

\* utils.get_environment_code
get_environment_code(environment) == DictGet(EnvironmentMapping, environment, "d")

\* environment_mapping of excel_processor.get_environment_code
EP_EnvironmentMapping ==
    << KV(s_Fix_Development, "d"), KV(s_Project_Development, "d"),
       KV(s_Fix_Quality, "q"), KV(s_Project_Quality, "q"), KV(s_Training, "q"),
       KV(s_Fix_Performance, "q"), KV(s_Project_performance, "q"), KV(s_Project_UAT, "q"),
       KV(s_Fix_Regression, "u"), KV(s_Sandbox, "s"), KV(s_Production, "p") >>

\* excel_processor.get_environment_code
EP_get_environment_code(environment) == DictGet(EP_EnvironmentMapping, environment, "d")

(***************************************************************************)
(* Records read from the JSON form: a field is present with a value, or    *)
(* missing; Get is dict.get(field, default).                               *)
(***************************************************************************)
Missing == [present |-> FALSE, v |-> <<>>]
\* a missing field whose values are region names
MissingRegion == [present |-> FALSE, v |-> ""]
Field(v) == [present |-> TRUE, v |-> v]
Get(f, default) == IF f.present THEN f.v ELSE default

s_sp == <<"-", "s", "p">>
s_IS01_rg == <<"-", "I", "S", "0", "1", "-", "r", "g">>
s_az == <<"-", "a", "z">>
s_ppg == <<"-", "p", "p", "g">>
s_as == <<"-", "a", "s">>
s_lb01 == <<"-", "l", "b", "0", "1">>
s_yes == <<"y", "e", "s">>
s_DB2 == <<"D", "B", "2">>
s_HANA == <<"H", "A", "N", "A">>
s_MaxDB == <<"M", "a", "x", "D", "B">>
s_DR == <<"D", "R">>
s_01 == <<"0", "1">>

(***************************************************************************)
(* excel_processor.process_sap_data_to_excel: the generated name cells of  *)
(* the SAP sheet (columns 19, 21 and 22 of each server row); the other     *)
(* columns copy form fields or constants.                                  *)
(***************************************************************************)
\* subscription.split("-")[1].split(" ")[0]
EP_SubscriptionNumber(subscription) ==
    LET parts == Split(subscription, "-")
    IN IF Len(parts) < 2 THEN Raised("IndexError")
       ELSE Ok(Split(parts[2], " ")[1])

\* f"{region_code}-sp{subscription_number}-{environment_code}-{itsg_id}-{sid}-IS01-rg"
EP_ResourceGroupName(region_code, subscription_number, environment_code, itsg_id, sid) ==
    region_code \o s_sp \o subscription_number \o <<"-", environment_code, "-">>
        \o itsg_id \o <<"-">> \o sid \o s_IS01_rg

\* f"{region_code}-sp{subscription_number}-{region_letter}-{itsg_id}-{sid}-az{az_zone}-ppg"
\* (tail "-ppg") and the availability set name (tail "-as")
EP_ZoneName(region_code, subscription_number, region_letter, itsg_id, sid, az_zone, tail) ==
    region_code \o s_sp \o subscription_number \o <<"-", region_letter, "-">>
        \o itsg_id \o <<"-">> \o sid \o s_az \o az_zone \o tail

\* EP_HasPpgRole with AAS among the qualifying roles
EP_HasPpgRoleWithAas(server_role) ==
    \E role \in {s_PAS, s_ASCS, s_SCS, s_AAS} : Contains(role, server_role)

\* any(role in server_role for role in ["PAS", "ASCS", "SCS"])
EP_HasPpgRole(server_role) ==
    \E role \in {s_PAS, s_ASCS, s_SCS} : Contains(role, server_role)

\* the cells of one server row, or the exception raised while filling it
EP_FillRow(general_config, server) ==
    LET region_code == Lower(Get(general_config.AzureRegionCode, <<>>))
        environment_code == EP_get_environment_code(Get(general_config.Environment, <<>>))
        itsg_id == Get(general_config.ITSGID, <<>>)
        sid == Upper(Get(general_config.SID, <<>>))
        subscription == Get(general_config.AzureSubscription, <<>>)
        sub == EP_SubscriptionNumber(subscription)
        server_role == Get(server.ServerRole, <<>>)
        region_letter == EP_get_sap_region_letter(Get(general_config.SAPRegion, "Sirius"))
        az_zone == Get(general_config.AZSelection, <<>>)
    IN IF sub.exc # "none" THEN sub
       ELSE Ok([ col19 |-> EP_ResourceGroupName(region_code, sub.val, environment_code, itsg_id, sid),
                 col21 |-> IF EP_HasPpgRole(server_role)
                           THEN EP_ZoneName(region_code, sub.val, region_letter, itsg_id, sid, az_zone, s_ppg)
                           ELSE <<>>,
                 col22 |-> IF Lower(Get(server.AvailabilitySet, <<>>)) = s_yes
                           THEN EP_ZoneName(region_code, sub.val, region_letter, itsg_id, sid, az_zone, s_as)
                           ELSE <<>> ])

\* the loop "for i, server in enumerate(server_data)": the rows written from
\* row 12 on, or the exception that ends the routine
RECURSIVE EP_FillRows(_, _)
EP_FillRows(general_config, server_data) ==
    IF server_data = <<>> THEN Ok(<<>>)
    ELSE LET row == EP_FillRow(general_config, Head(server_data))
         IN IF row.exc # "none" THEN row
            ELSE LET rest == EP_FillRows(general_config, Tail(server_data))
                 IN IF rest.exc # "none" THEN rest ELSE Ok(<<row.val>> \o rest.val)

process_sap_data_to_excel(general_config, server_data) ==
    EP_FillRows(general_config, server_data)

(***************************************************************************)
(* utils.add_load_balancer_sheet                                           *)
(***************************************************************************)
FirstLbRow == 13

\* subscription.split("-")[1].split(" ")[0] if "-" in subscription else "01"
SubscriptionNumber(subscription) ==
    IF Contains(<<"-">>, subscription)
    THEN Split(Split(subscription, "-")[2], " ")[1]
    ELSE s_01

\* f"{region_code}-sp{subscription_number}-{environment_code}-{itsg_id}-{sid}-IS01-rg"
ResourceGroupName(region_code, subscription_number, environment_code, itsg_id, sid) ==
    region_code \o s_sp \o subscription_number \o <<"-", environment_code, "-">>
        \o itsg_id \o <<"-">> \o sid \o s_IS01_rg

\* f"{region_code}-sp{subscription_number}-{environment_code}-{smn}-lb01"
LoadBalancerName(region_code, subscription_number, environment_code, smn) ==
    region_code \o s_sp \o subscription_number \o <<"-", environment_code, "-">>
        \o smn \o s_lb01

HasAscs(server_role) == Contains(s_ASCS, server_role)
HasDb(server_role) == \E db_role \in {s_DB2, s_HANA, s_MaxDB} : Contains(db_role, server_role)

\* has_required_roles
HasRequiredRoles(primary_servers) ==
    \E i \in 1..Len(primary_servers) :
        \E role \in {s_ASCS, s_DB2, s_HANA, s_MaxDB} :
            Contains(role, Get(primary_servers[i].ServerRole, <<>>))

\* the city passed to generate_service_model_names
LbCity(azure_region, server_role) ==
    IF Contains(s_Amsterdam, azure_region) THEN s_Amsterdam
    ELSE IF Contains(s_DR, server_role)
    THEN (IF Contains(s_Dublin, azure_region) THEN s_Amsterdam ELSE s_Dublin)
    ELSE s_Dublin

LbRow(row, name, rg, kind) == [row |-> row, col1 |-> name, col4 |-> rg, col13 |-> kind]

\* the loop "for server in primary_servers": the rows written from current_row on,
\* or the exception that ends the routine
RECURSIVE LbRows(_, _, _, _, _)
LbRows(general_config, servers, current_row, resource_group_name, dns_sheet) ==
    IF servers = <<>> THEN Ok(<<>>)
    ELSE LET server_role == Get(Head(servers).ServerRole, <<>>)
             region_code == Lower(Get(general_config.AzureRegionCode, <<>>))
             environment_code == get_environment_code(Get(general_config.Environment, <<>>))
             subscription_number == SubscriptionNumber(Get(general_config.AzureSubscription, <<>>))
             n == (IF HasAscs(server_role) THEN 1 ELSE 0) + (IF HasDb(server_role) THEN 1 ELSE 0)
             written(name) ==
                 LET lb == LoadBalancerName(region_code, subscription_number, environment_code,
                                            Split(name, ".")[1])
                 IN (IF HasAscs(server_role)
                     THEN <<LbRow(current_row, lb, resource_group_name, "ASCS")>>
                     ELSE <<>>)
                    \o (IF HasDb(server_role)
                        THEN <<LbRow(current_row + n - 1, lb, resource_group_name, "DB")>>
                        ELSE <<>>)
         IN IF n = 0
            THEN LbRows(general_config, Tail(servers), current_row, resource_group_name, dns_sheet)
            ELSE The({ IF name.exc # "none" THEN name
                       ELSE The({ IF rest.exc # "none" THEN rest
                                  ELSE Ok(written(name.val) \o rest.val) :
                                  rest \in {LbRows(general_config, Tail(servers), current_row + n,
                                                   resource_group_name, dns_sheet)} }) :
                       name \in {generate_service_model_names(
                                     server_role, Get(general_config.SID, <<>>),
                                     Get(general_config.SAPRegion, "Sirius"),
                                     LbCity(Get(general_config.AzureRegion, <<>>), server_role),
                                     s_eu, dns_sheet, None)} })

add_load_balancer_sheet(has_lb_sheet, general_config, primary_servers, dns_sheet) ==
    IF ~ has_lb_sheet THEN Ok(<<>>)
    ELSE IF ~ HasRequiredRoles(primary_servers) THEN Ok(<<>>)
    ELSE LET region_code == Lower(Get(general_config.AzureRegionCode, <<>>))
             environment_code == get_environment_code(Get(general_config.Environment, <<>>))
             itsg_id == Get(general_config.ITSGID, <<>>)
             sid == Upper(Get(general_config.SID, <<>>))
             subscription_number == SubscriptionNumber(Get(general_config.AzureSubscription, <<>>))
             resource_group_name ==
                 ResourceGroupName(region_code, subscription_number, environment_code, itsg_id, sid)
         IN LbRows(general_config, primary_servers, FirstLbRow, resource_group_name, dns_sheet)

(***************************************************************************)
(* sap_form.py: availability zones and VM sizes of the request form.       *)
(***************************************************************************)
s_NLWE == <<"N", "L", "W", "E">>
s_IENO == <<"I", "E", "N", "O">>
s_bnlwe == <<"b", "n", "l", "w", "e">>
s_bieno == <<"b", "i", "e", "n", "o">>
s_Not_Available == <<"N", "o", "t", " ", "A", "v", "a", "i", "l", "a", "b", "l", "e">>

\* get_region_code(azure_region)
get_region_code(azure_region) ==
    IF Contains(s_Amsterdam, azure_region) \/ Contains(s_NLWE, azure_region) THEN s_bnlwe
    ELSE IF Contains(s_Dublin, azure_region) \/ Contains(s_IENO, azure_region) THEN s_bieno
    ELSE s_bnlwe

\* the loop over df.iterrows() of load_vm_sku_data
RECURSIVE ReadSkuRows(_, _, _)
ReadSkuRows(rows, cols, d) ==
    IF rows = <<>> THEN Ok(d)
    ELSE IF ~ ({"VM Type", "VM Size"} \subseteq cols) THEN Raised("KeyError")
    ELSE LET row == Head(rows)
         IN IF NotNa(row.VMType) /\ NotNa(row.VMSize)
            THEN ReadSkuRows(Tail(rows), cols, DictSet(d, row.VMType, row.VMSize))
            ELSE ReadSkuRows(Tail(rows), cols, d)

\* TRUE when the try block of load_vm_sku_data fails
SkuReadFails(sheet) ==
    \/ ~ sheet.readable
    \/ ReadSkuRows(sheet.rows, sheet.cols, <<>>).exc # "none"

\* the dictionary load_vm_sku_data returns: the except branch returns {}
load_vm_sku_data(sheet) ==
    IF SkuReadFails(sheet) THEN <<>>
    ELSE ReadSkuRows(sheet.rows, sheet.cols, <<>>).val

DefaultInstanceTypes ==
    << <<"D", "8", "a", "s", "v", "4">>,
       <<"E", "8", "a", "s", "v", "4">>,
       <<"E", "1", "6", "_", "v", "3">>,
       <<"E", "1", "6", "a", "s", "_", "v", "4">>,
       <<"E", "1", "6", "d", "s", "_", "v", "4">>,
       <<"E", "1", "6", "s", "_", "v", "3">>,
       <<"E", "2", "_", "v", "3">>,
       <<"E", "2", "0", "a", "s", "_", "v", "4">>,
       <<"E", "2", "0", "d", "s", "_", "v", "4">>,
       <<"E", "2", "0", "s", "_", "v", "3">>,
       <<"E", "2", "a", "s", "_", "v", "4">>,
       <<"E", "2", "d", "s", "_", "v", "4">>,
       <<"E", "2", "s", "_", "v", "3">>,
       <<"E", "3", "2", "_", "v", "3">>,
       <<"E", "3", "2", "a", "s", "_", "v", "4">>,
       <<"E", "3", "2", "d", "s", "_", "v", "4">>,
       <<"E", "3", "2", "s", "_", "v", "3">>,
       <<"E", "4", "_", "v", "3">>,
       <<"E", "4", "8", "a", "s", "_", "v", "4">>,
       <<"E", "4", "8", "d", "s", "_", "v", "4">>,
       <<"E", "4", "8", "s", "_", "v", "3">>,
       <<"E", "4", "a", "s", "_", "v", "4">>,
       <<"E", "4", "d", "s", "_", "v", "4">>,
       <<"E", "4", "s", "_", "v", "3">> >>

\* INSTANCE_TYPES = list(vm_sku_mapping.keys()) if vm_sku_mapping else [...]
InstanceTypes(vm_sku_mapping) ==
    IF vm_sku_mapping # <<>>
    THEN [i \in 1..Len(vm_sku_mapping) |-> vm_sku_mapping[i].key]
    ELSE [i \in 1..Len(DefaultInstanceTypes) |-> StrCell(DefaultInstanceTypes[i])]

\* vm_mapping.get(vm_type, "Not Available")
get_vm_size(vm_type, vm_mapping) == DictGet(vm_mapping, vm_type, StrCell(s_Not_Available))

AzColumns == {"Subscription", "Region", "Primary Zone", "HA Zone"}

\* the loop over df.iterrows() of load_az_zone_data
RECURSIVE ReadAzRows(_, _, _)
ReadAzRows(rows, cols, d) ==
    IF rows = <<>> THEN Ok(d)
    ELSE IF ~ (AzColumns \subseteq cols) THEN Raised("KeyError")
    ELSE LET row == Head(rows)
             zones == [primary_zone |-> PyStr(row.PrimaryZone), ha_zone |-> PyStr(row.HAZone)]
         IN IF NotNa(row.Subscription) /\ NotNa(row.Region)
            THEN ReadAzRows(Tail(rows), cols, DictSet(d, <<row.Subscription, row.Region>>, zones))
            ELSE ReadAzRows(Tail(rows), cols, d)

\* TRUE when the try block of load_az_zone_data fails
AzReadFails(sheet) ==
    \/ ~ sheet.readable
    \/ ReadAzRows(sheet.rows, sheet.cols, <<>>).exc # "none"

\* the dictionary load_az_zone_data returns: the except branch returns {}
load_az_zone_data(sheet) ==
    IF AzReadFails(sheet) THEN <<>>
    ELSE ReadAzRows(sheet.rows, sheet.cols, <<>>).val

get_az_zones_names_only(azure_subscription, azure_region, az_mapping) ==
    LET region == IF Contains(s_Amsterdam, azure_region) THEN s_Amsterdam
                  ELSE IF Contains(s_Dublin, azure_region) THEN s_Dublin
                  ELSE s_Amsterdam
        key == <<StrCell(azure_subscription), StrCell(region)>>
    IN IF HasKey(az_mapping, key)
       THEN <<Lookup(az_mapping, key).primary_zone, Lookup(az_mapping, key).ha_zone>>
       ELSE << <<"1">>, <<"2">> >>

\* get_az_zones(azure_subscription, azure_region, az_mapping): (primary_zone, ha_zone)
get_az_zones(azure_subscription, azure_region, az_mapping) ==
    LET region == IF Contains(s_Amsterdam, azure_region) \/ Contains(s_NLWE, azure_region)
                  THEN s_Amsterdam
                  ELSE IF Contains(s_Dublin, azure_region) \/ Contains(s_IENO, azure_region)
                  THEN s_Dublin
                  ELSE s_Amsterdam
        key == <<StrCell(azure_subscription), StrCell(region)>>
    IN IF HasKey(az_mapping, key)
       THEN <<Lookup(az_mapping, key).primary_zone, Lookup(az_mapping, key).ha_zone>>
       ELSE << <<"1">>, <<"2">> >>

\* az_zones = ["1", "2", "3"]
AzZoneOptions == << <<"1">>, <<"2">>, <<"3">> >>

\* az_zones.index(zone) + 1, or 0 when zone is not in az_zones
ZoneIndex(zone) ==
    IF \E i \in 1..Len(AzZoneOptions) : AzZoneOptions[i] = zone
    THEN CHOOSE i \in 1..Len(AzZoneOptions) : AzZoneOptions[i] = zone
    ELSE 0

\* the body of "for i in range(num_servers)" of render_form_content on the
\* production form, as far as the "AZ Selection - Zone" box goes: the value of
\* each server's box, or the exception list.index raises
RECURSIVE PrimaryServerZones(_, _, _, _, _)
PrimaryServerZones(server_roles, azure_subscription, azure_region, az_zone_mapping, aas_server_count) ==
    IF server_roles = <<>> THEN Ok(<<>>)
    ELSE LET server_role == Head(server_roles)
             suggested == get_az_zones(azure_subscription, azure_region, az_zone_mapping)
             suggested_primary == suggested[1]
             suggested_ha == suggested[2]
             is_aas == Contains(s_AAS, server_role)
             count == IF is_aas THEN aas_server_count + 1 ELSE aas_server_count
             selected_zone == IF count % 2 = 1 THEN suggested_ha ELSE suggested_primary
             selected_zone_index ==
                 IF is_aas
                 THEN (IF ZoneIndex(selected_zone) # 0 THEN ZoneIndex(selected_zone) ELSE 1)
                 ELSE ZoneIndex(suggested_primary)
         IN IF selected_zone_index = 0 THEN Raised("ValueError")
            ELSE LET rest == PrimaryServerZones(Tail(server_roles), azure_subscription, azure_region,
                                                az_zone_mapping, count)
                 IN IF rest.exc # "none" THEN rest
                    ELSE Ok(<<AzZoneOptions[selected_zone_index]>> \o rest.val)

\* render_form_content("prod", is_production=True): the zone boxes of the
\* primary-region servers
render_form_content(azure_subscription, azure_region, server_roles, az_sheet) ==
    PrimaryServerZones(server_roles, azure_subscription, azure_region, load_az_zone_data(az_sheet), 0)

\* dr_aas_servers_so_far after the loop over dr_servers_enabled: the enabled DR
\* servers before server_index whose role in the session state contains "AAS"
DrAasServersSoFar(server_index, dr_servers_enabled, dr_server_roles) ==
    Cardinality({j \in 1..Len(dr_servers_enabled) :
                    /\ dr_servers_enabled[j] < server_index
                    /\ Contains(s_AAS, dr_server_roles[dr_servers_enabled[j] + 1])})

\* render_dr_server_config: the value of the "AZ Selection - Zone" box of the DR
\* server server_index
render_dr_server_config(server_index, region_code, azure_subscription, dr_servers_enabled, dr_server_roles, az_zone_mapping) ==
    LET dr_server_role == dr_server_roles[server_index + 1]
        before == DrAasServersSoFar(server_index, dr_servers_enabled, dr_server_roles)
        dr_region == IF Contains(s_bnlwe, Lower(region_code)) THEN s_Dublin ELSE s_Amsterdam
        dr_suggested == get_az_zones(azure_subscription, dr_region, az_zone_mapping)
        dr_suggested_primary == dr_suggested[1]
        dr_suggested_ha == dr_suggested[2]
        dr_aas_servers_so_far == IF Contains(s_AAS, dr_server_role) THEN before + 1 ELSE before
        selected_dr_zone ==
            IF Contains(s_AAS, dr_server_role)
            THEN (IF dr_aas_servers_so_far % 2 = 1 THEN dr_suggested_ha ELSE dr_suggested_primary)
            ELSE dr_suggested_primary
        selected_dr_zone_index == IF ZoneIndex(selected_dr_zone) # 0 THEN ZoneIndex(selected_dr_zone) ELSE 1
    IN AzZoneOptions[selected_dr_zone_index]

\* "for i in dr_servers_enabled: render_dr_server_config(...)" of
\* render_form_content: the zone box of every enabled DR server
DrServerZones(azure_subscription, azure_region, dr_servers_enabled, dr_server_roles, az_sheet) ==
    [j \in 1..Len(dr_servers_enabled) |->
        render_dr_server_config(dr_servers_enabled[j], get_region_code(azure_region),
                                azure_subscription, dr_servers_enabled, dr_server_roles,
                                load_az_zone_data(az_sheet))]

(***************************************************************************)
(* Inputs: the sheets a call may find on disk and the arguments of a call. *)
(***************************************************************************)
BoundedSeq(S, n) == UNION {[1..k -> S] : k \in 0..n}

s_P01 == <<"P", "0", "1">>
s_Paris == <<"P", "a", "r", "i", "s">>
s_Maxdb == <<"M", "a", "x", "d", "b">>
s_ASCS_PAS == <<"A", "S", "C", "S", "+", "P", "A", "S">>
s_PAS_AAS == <<"P", "A", "S", " ", "+", " ", "A", "A", "S">>

DnsRow(id, no, fq) == [Identifier |-> id, No |-> no, Fqdn |-> fq]

s_AAS_Amsterdam_HA == <<"A", "A", "S", "-", "A", "m", "s", "t", "e", "r", "d", "a", "m", "-", "H", "A">>
s_fqdn_PAS == <<"e", "<", "S", "I", "D", ">", "0", "5", "1", "a", ".", "e", "u", ".", "u", "n", "i", "l", "e", "v", "e", "r", ".", "c", "o", "m">>

DnsRowPool ==
    { DnsRow(StrCell(s_HANA_DB), StrCell(<<"0", "0", "1", "a">>), NaN),
      DnsRow(StrCell(s_ASCS), StrCell(<<"0", "0", "2", "a">>), NaN),
      DnsRow(StrCell(s_SCS), StrCell(<<"0", "0", "3", "a">>), NaN),
      DnsRow(StrCell(s_PAS), NaN, StrCell(s_fqdn_PAS)),
      DnsRow(StrCell(s_PAS), NaN, NaN),
      DnsRow(StrCell(s_AAS_Amsterdam), StrCell(<<"1", "0", "2", "a">>), NaN),
      DnsRow(StrCell(s_AAS_Amsterdam_HA), StrCell(<<"1", "1", "0", "a">>), NaN),
      DnsRow(IntCell(7), StrCell(<<"0", "0", "7", "a">>), NaN),
      DnsRow(NaN, StrCell(<<"0", "0", "9", "a">>), NaN) }

DnsColumns == {"Identifier", "No.", "FQDN Example"}

\* the "DNS -Azure" sheet: well-formed sheets of up to MaxRows rows, and the
\* ways the source can be missing or malformed
DnsSheets ==
    {[readable |-> TRUE, cols |-> DnsColumns, rows |-> r] : r \in BoundedSeq(DnsRowPool, MaxRows)}
    \cup {[readable |-> FALSE, cols |-> {}, rows |-> <<>>]}
    \cup {[readable |-> TRUE, cols |-> c, rows |-> <<r>>] :
            c \in {{"No.", "FQDN Example"}, {"Identifier", "No."}, {"Identifier", "FQDN Example"}},
            r \in {DnsRow(StrCell(s_PAS), NaN, NaN),
                   DnsRow(StrCell(s_PAS), StrCell(<<"0", "5", "1", "a">>), IntCell(5))}}
    \cup {[readable |-> TRUE, cols |-> DnsColumns, rows |-> <<DnsRow(StrCell(s_PAS), NaN, IntCell(5))>>]}

InstRow(server, type, np, pr) == [Server |-> server, Type |-> type, NonProd |-> np, Prod |-> pr]

s_SAP_ERS == <<"S", "A", "P", " ", "E", "R", "S">>

InstRowPool ==
    { InstRow(StrCell(s_SAP_ASCS), StrCell(s_Standalone), FloatCell(1), FloatCell(21)),
      InstRow(StrCell(s_SAP_ASCS), StrCell(s_Clustered), StrCell(<<"0", "1">>), StrCell(<<"2", "5">>)),
      InstRow(StrCell(s_SAP_SCS), StrCell(s_Standalone), IntCell(2), IntCell(22)),
      InstRow(StrCell(s_SAP_PAS), StrCell(s_Standalone), NaN, StrCell(<<"2", "0">>)),
      InstRow(StrCell(s_SAP_ERS), StrCell(s_Clustered), StrCell(<<"3", "1">>), StrCell(<<"3", "1">>)),
      InstRow(StrCell(s_SAP_HANA_DB), StrCell(s_Standalone), StrCell(<<"0", "0">>), StrCell(<<" ", "0", "0">>)),
      InstRow(NaN, StrCell(s_Standalone), StrCell(<<"0", "9">>), StrCell(<<"0", "9">>)) }

\* the "Instance Number" sheet: well-formed sheets of up to MaxRows rows, and the
\* ways the source can be missing or malformed
InstSheets ==
    {[readable |-> TRUE, ncols |-> 4, rows |-> r] : r \in BoundedSeq(InstRowPool, MaxRows)}
    \cup {[readable |-> FALSE, ncols |-> 0, rows |-> <<>>]}
    \cup {[readable |-> TRUE, ncols |-> 3, rows |-> r] :
            r \in {<<>>, <<InstRow(StrCell(s_SAP_ASCS), StrCell(s_Standalone), FloatCell(1), NaN)>>}}

s_Non_Production == <<"N", "o", "n", "-", "P", "r", "o", "d", "u", "c", "t", "i", "o", "n">>
s_ASCS_HA == <<"A", "S", "C", "S", "-", "H", "A">>
s_HANA_DB_HA == <<"H", "A", "N", "A", " ", "D", "B", "-", "H", "A">>
s_ASCS_HA_PAS == <<"A", "S", "C", "S", "-", "H", "A", "+", "P", "A", "S">>
s_PAS_HA == <<"P", "A", "S", "-", "H", "A">>
s_ERS == <<"E", "R", "S">>

InstRoles == {s_ASCS, s_ASCS_HA, s_SCS, s_PAS, s_PAS_HA, s_AAS, s_HANA_DB_HA, s_ERS, s_Maxdb,
              s_ASCS_PAS, s_ASCS_HA_PAS}
InstEnvironments == {s_Production, s_Sandbox, s_Non_Production}

AasCounters == {None} \cup {Some(n) : n \in 1..MaxAasCounter}


Roles == {s_HANA_DB, s_ASCS, s_PAS, s_AAS, s_AAS_Amsterdam_HA, s_Maxdb, s_ASCS_PAS, s_PAS_AAS}
Sids == {s_P01, <<>>}
\* the regions tried with every sheet; every region of AllSapRegions is tried
\* with the fallback table
SapRegions == {"Sirius", "Fusion"}
Cities == {s_Amsterdam, s_Dublin, s_Paris}

s_Sub02 == <<"S", "A", "P", " ", "T", "e", "c", "h", "n", "i", "c", "a", "l", " ", "S", "e", "r", "v", "i", "c", "e", "s", "-", "0", "2", " ", "(", "S", "i", "r", "i", "u", "s", ")">>
s_SubNoDash == <<"S", "A", "P", " ", "T", "e", "c", "h", "n", "i", "c", "a", "l", " ", "S", "e", "r", "v", "i", "c", "e", "s">>
s_AzAmsterdam == <<"A", "z", "u", "r", "e", ":", " ", "W", "e", "s", "t", "e", "r", "n", " ", "E", "u", "r", "o", "p", "e", " ", "(", "A", "m", "s", "t", "e", "r", "d", "a", "m", ")", " ", "(", "N", "L", "W", "E", ")">>
s_AzDublin == <<"A", "z", "u", "r", "e", ":", " ", "N", "o", "r", "t", "h", "e", "r", "n", " ", "E", "u", "r", "o", "p", "e", " ", "(", "D", "u", "b", "l", "i", "n", ")", " ", "(", "I", "E", "N", "O", ")">>
s_BNLWE == <<"B", "N", "L", "W", "E">>
s_p01 == <<"p", "0", "1">>
s_ITSG == <<"1", "2", "3">>
s_production == <<"p", "r", "o", "d", "u", "c", "t", "i", "o", "n">>
s_ASCS_HANA == <<"A", "S", "C", "S", "+", "H", "A", "N", "A", " ", "D", "B">>
s_DB2_DB_DR == <<"D", "B", "2", " ", "D", "B", "-", "D", "R">>
s_Yes == <<"Y", "e", "s">>

MaxServers == 2

AllSapRegions == {"Sirius", "U2K2", "Cordillera", "Global", "POC/Model Env", "Fusion", "sirius", ""}

\* general_config records of the JSON form, fields present or missing
GeneralConfigs ==
    [ AzureRegionCode : {Missing, Field(s_BNLWE)},
      Environment : {Missing, Field(s_Production), Field(s_Fix_Regression), Field(s_production)},
      ITSGID : {Missing, Field(s_ITSG)},
      SID : {Missing, Field(s_p01)},
      AzureSubscription : {Missing, Field(<<>>), Field(s_Sub02), Field(s_SubNoDash)},
      SAPRegion : {MissingRegion, Field("Global")},
      AZSelection : {Missing, Field(<<"1">>)},
      AzureRegion : {Missing} ]

Server(role, avset) == [ServerRole |-> role, AvailabilitySet |-> avset]

ServerPool ==
    { Server(Field(s_PAS), Field(s_Yes)), Server(Field(s_HANA_DB), Missing),
      Server(Field(s_AAS), Missing), Server(Missing, Field(s_yes)) }

LbGeneralConfigs ==
    [ AzureRegionCode : {Missing, Field(s_BNLWE)},
      Environment : {Missing, Field(s_Production)},
      ITSGID : {Missing, Field(s_ITSG)},
      SID : {Missing, Field(s_p01)},
      AzureSubscription : {Missing, Field(s_Sub02), Field(s_SubNoDash)},
      SAPRegion : {MissingRegion, Field("Global")},
      AZSelection : {Missing},
      AzureRegion : {Missing, Field(s_AzAmsterdam), Field(s_AzDublin)} ]

LbServerPool ==
    { Server(Field(s_ASCS), Missing), Server(Field(s_ASCS_HANA), Missing),
      Server(Field(s_PAS), Missing), Server(Field(s_DB2_DB_DR), Missing) }

LbDnsSheets ==
    { [readable |-> FALSE, cols |-> {}, rows |-> <<>>],
      [readable |-> TRUE, cols |-> DnsColumns,
       rows |-> <<DnsRow(IntCell(7), StrCell(<<"0", "0", "7", "a">>), NaN),
                  DnsRow(StrCell(s_ASCS), StrCell(<<"0", "0", "2", "a">>), NaN)>>] }

AzRow(subscription, region, primary_zone, ha_zone) ==
    [Subscription |-> subscription, Region |-> region, PrimaryZone |-> primary_zone, HAZone |-> ha_zone]

AzRowPool ==
    { AzRow(StrCell(s_Sub02), StrCell(s_Amsterdam), IntCell(1), IntCell(2)),
      AzRow(StrCell(s_Sub02), StrCell(s_Amsterdam), IntCell(3), IntCell(1)),
      AzRow(StrCell(s_Sub02), StrCell(s_Dublin), IntCell(2), IntCell(3)),
      AzRow(StrCell(s_Sub02), StrCell(s_Amsterdam), FloatCell(1), NaN),
      AzRow(NaN, StrCell(s_Amsterdam), IntCell(2), IntCell(1)) }

\* the "AZ Zone" sheet: well-formed sheets of up to MaxRows rows, and the ways
\* the source can be missing or malformed
AzSheets ==
    {[readable |-> TRUE, cols |-> AzColumns, rows |-> r] : r \in BoundedSeq(AzRowPool, MaxRows)}
    \cup {[readable |-> FALSE, cols |-> {}, rows |-> <<>>]}
    \cup {[readable |-> TRUE, cols |-> AzColumns \ {"HA Zone"}, rows |-> r] :
            r \in {<<>>, <<AzRow(StrCell(s_Sub02), StrCell(s_Amsterdam), IntCell(1), NaN)>>}}

AzSubscriptions == {s_Sub02, s_SubNoDash}
AzRegions == {s_AzAmsterdam, s_AzDublin, s_NLWE, s_IENO, s_Amsterdam, s_Dublin, s_Paris, <<>>}

s_E2_v3 == <<"E", "2", "_", "v", "3">>
s_D8asv4 == <<"D", "8", "a", "s", "v", "4">>
s_16GiB == <<"2", " ", "v", "C", "P", "U", ",", " ", "1", "6", " ", "G", "i", "B">>

SkuRow(vm_type, vm_size) == [VMType |-> vm_type, VMSize |-> vm_size]

SkuRowPool ==
    { SkuRow(StrCell(s_E2_v3), StrCell(s_16GiB)),
      SkuRow(StrCell(s_D8asv4), IntCell(8)),
      SkuRow(StrCell(s_E2_v3), NaN),
      SkuRow(NaN, StrCell(s_16GiB)),
      SkuRow(IntCell(7), StrCell(s_16GiB)) }

\* the "SKU Name" sheet: well-formed sheets of up to MaxRows rows, and the ways
\* the source can be missing or malformed
SkuSheets ==
    {[readable |-> TRUE, cols |-> {"VM Type", "VM Size"}, rows |-> r] :
        r \in BoundedSeq(SkuRowPool, MaxRows)}
    \cup {[readable |-> FALSE, cols |-> {}, rows |-> <<>>]}
    \cup {[readable |-> TRUE, cols |-> {"VM Type"}, rows |-> <<SkuRow(StrCell(s_E2_v3), NaN)>>]}

s_AAS_DR == <<"A", "A", "S", "-", "D", "R">>
s_PAS_DR == <<"P", "A", "S", "-", "D", "R">>

\* the "AZ Zone" sheets the form is rendered against
FormAzSheets ==
    { [readable |-> FALSE, cols |-> {}, rows |-> <<>>],
      [readable |-> TRUE, cols |-> AzColumns,
       rows |-> <<AzRow(StrCell(s_Sub02), StrCell(s_Amsterdam), IntCell(1), IntCell(2)),
                  AzRow(StrCell(s_Sub02), StrCell(s_Dublin), IntCell(2), IntCell(3))>>],
      [readable |-> TRUE, cols |-> AzColumns,
       rows |-> <<AzRow(StrCell(s_Sub02), StrCell(s_Amsterdam), IntCell(3), IntCell(1))>>],
      [readable |-> TRUE, cols |-> AzColumns,
       rows |-> <<AzRow(StrCell(s_Sub02), StrCell(s_Amsterdam), FloatCell(1), FloatCell(2)),
                  AzRow(StrCell(s_Sub02), StrCell(s_Dublin), FloatCell(2), NaN)>>] }

FormAzureRegions == {s_AzAmsterdam, s_AzDublin}
FormServerRoles == {s_AAS, s_PAS, s_HANA_DB}
DrServerRoles == {s_AAS_DR, s_PAS_DR}

\* the elements of a set of indices in ascending order, as list.sort() leaves
\* dr_servers_enabled
RECURSIVE Ascending(_)
Ascending(S) ==
    IF S = {} THEN <<>>
    ELSE LET m == CHOOSE x \in S : \A y \in S : x <= y
         IN <<m>> \o Ascending(S \ {m})

(***************************************************************************)
(* The state machine: execution is synchronous, one request at a time.  A  *)
(* Call step runs one routine of the engine from the idle state: it reads  *)
(* the sheet then on disk (src) and leaves its result in ret.  Return      *)
(* discards the result and goes back to idle for the next request.         *)
(***************************************************************************)
NoSheet == [readable |-> FALSE, cols |-> {}, rows |-> <<>>]
NoArgs == [server_role |-> <<>>]

Init ==
    /\ op = "idle"
    /\ src = NoSheet
    /\ args = NoArgs
    /\ ret = Ok(<<>>)
    /\ files = <<>>
    /\ sessions = <<>>
    /\ clock = 0
    /\ io = <<>>

Return ==
    /\ op # "idle"
    /\ UNCHANGED <<files, sessions, clock, io>>
    /\ op' = "idle"
    /\ src' = NoSheet
    /\ args' = NoArgs
    /\ ret' = Ok(<<>>)

CallGenerateServiceModelNames ==
    /\ op = "idle"
    /\ UNCHANGED <<files, sessions, clock, io>>
    /\ \E sheet \in DnsSheets, role \in Roles, sid \in Sids, region \in AllSapRegions,
       city \in Cities, counter \in AasCounters :
        /\ region \in SapRegions \/ ~ sheet.readable
        /\ op' = "utils.generate_service_model_names"
        /\ src' = sheet
        /\ args' = [server_role |-> role, sid |-> sid, sap_region |-> region, city |-> city,
                    region_code |-> s_eu, aas_counter |-> counter]
        /\ ret' = generate_service_model_names(role, sid, region, city, s_eu, sheet, counter)

CallGenerateServiceModelNamesEP ==
    /\ op = "idle"
    /\ UNCHANGED <<files, sessions, clock, io>>
    /\ \E sheet \in DnsSheets, role \in Roles, sid \in Sids, region \in AllSapRegions :
        /\ region \in SapRegions \/ ~ sheet.readable
        /\ op' = "excel_processor.generate_service_model_names"
        /\ src' = sheet
        /\ args' = [server_role |-> role, sid |-> sid, sap_region |-> region,
                    region_code |-> s_eu]
        /\ ret' = EP_generate_service_model_names(role, sid, region, s_eu, sheet)

CallGetInstanceNumber ==
    /\ op = "idle"
    /\ UNCHANGED <<files, sessions, clock, io>>
    /\ \E sheet \in InstSheets, role \in InstRoles, env \in InstEnvironments :
        /\ op' = "utils.get_instance_number"
        /\ src' = sheet
        /\ args' = [server_role |-> role, environment_type |-> env]
        /\ ret' = get_instance_number(role, env, sheet)

CallGetSapRegionLetter ==
    /\ op = "idle"
    /\ UNCHANGED <<files, sessions, clock, io>>
    /\ \E region \in AllSapRegions :
        /\ op' = "utils.get_sap_region_letter"
        /\ src' = NoSheet
        /\ args' = [sap_region |-> region]
        /\ ret' = Ok(<<get_sap_region_letter(region)>>)

CallGetSapRegionLetterEP ==
    /\ op = "idle"
    /\ UNCHANGED <<files, sessions, clock, io>>
    /\ \E region \in AllSapRegions :
        /\ op' = "excel_processor.get_sap_region_letter"
        /\ src' = NoSheet
        /\ args' = [sap_region |-> region]
        /\ ret' = Ok(<<EP_get_sap_region_letter(region)>>)

CallProcessSapDataToExcel ==
    /\ op = "idle"
    /\ UNCHANGED <<files, sessions, clock, io>>
    /\ \E general_config \in GeneralConfigs, server_data \in BoundedSeq(ServerPool, MaxServers) :
        /\ op' = "excel_processor.process_sap_data_to_excel"
        /\ src' = NoSheet
        /\ args' = [general_config |-> general_config, server_data |-> server_data]
        /\ ret' = process_sap_data_to_excel(general_config, server_data)

CallAddLoadBalancerSheet ==
    /\ op = "idle"
    /\ UNCHANGED <<files, sessions, clock, io>>
    /\ \E has_lb_sheet \in BOOLEAN, general_config \in LbGeneralConfigs,
          primary_servers \in BoundedSeq(LbServerPool, MaxServers), sheet \in LbDnsSheets :
        /\ op' = "utils.add_load_balancer_sheet"
        /\ src' = sheet
        /\ args' = [has_lb_sheet |-> has_lb_sheet, general_config |-> general_config,
                    primary_servers |-> primary_servers]
        /\ ret' = add_load_balancer_sheet(has_lb_sheet, general_config, primary_servers, sheet)

CallGetAzZones ==
    /\ op = "idle"
    /\ UNCHANGED <<files, sessions, clock, io>>
    /\ \E sheet \in AzSheets, subscription \in AzSubscriptions, region \in AzRegions :
        /\ op' = "sap_form.get_az_zones"
        /\ src' = sheet
        /\ args' = [azure_subscription |-> subscription, azure_region |-> region]
        /\ ret' = Ok(get_az_zones(subscription, region, load_az_zone_data(sheet)))

CallGetVmSize ==
    /\ op = "idle"
    /\ UNCHANGED <<files, sessions, clock, io>>
    /\ \E sheet \in SkuSheets :
        \E instance_type \in {InstanceTypes(load_vm_sku_data(sheet))[i] :
                                 i \in 1..Len(InstanceTypes(load_vm_sku_data(sheet)))} :
            /\ op' = "sap_form.get_vm_size"
            /\ src' = sheet
            /\ args' = [instance_type |-> instance_type]
            /\ ret' = Ok(get_vm_size(instance_type, load_vm_sku_data(sheet)))

CallRenderFormContent ==
    /\ op = "idle"
    /\ UNCHANGED <<files, sessions, clock, io>>
    /\ \E sheet \in FormAzSheets, subscription \in AzSubscriptions, region \in FormAzureRegions,
          server_roles \in BoundedSeq(FormServerRoles, MaxServers) :
        /\ op' = "sap_form.render_form_content"
        /\ src' = sheet
        /\ args' = [azure_subscription |-> subscription, azure_region |-> region,
                    server_roles |-> server_roles]
        /\ ret' = render_form_content(subscription, region, server_roles, sheet)

CallRenderDrServers ==
    /\ op = "idle"
    /\ UNCHANGED <<files, sessions, clock, io>>
    /\ \E sheet \in FormAzSheets, subscription \in AzSubscriptions, region \in FormAzureRegions,
          num_servers \in 1..MaxServers :
        \E dr_server_roles \in [1..num_servers -> DrServerRoles],
           enabled \in SUBSET (0..(num_servers - 1)) :
            /\ op' = "sap_form.render_dr_server_config"
            /\ src' = sheet
            /\ args' = [azure_subscription |-> subscription, azure_region |-> region,
                        dr_servers_enabled |-> Ascending(enabled),
                        dr_server_roles |-> dr_server_roles]
            /\ ret' = Ok(DrServerZones(subscription, region, Ascending(enabled), dr_server_roles, sheet))

(***************************************************************************)
(* sap_form.get_suggested_dr_role: the DR role offered for a primary role. *)
(***************************************************************************)
MaxDrRoles == 3

s_minus_DR == <<"-", "D", "R">>
s_ASCS_DR == <<"A", "S", "C", "S", "-", "D", "R">>
s_SCS_DR == <<"S", "C", "S", "-", "D", "R">>
s_HANA_DB_DR == <<"H", "A", "N", "A", " ", "D", "B", "-", "D", "R">>
s_pas == <<"p", "a", "s">>

\* str.replace(old, new), old not empty
RECURSIVE StrReplace(_, _, _)
StrReplace(s, old, new) ==
    IF Len(s) < Len(old) THEN s
    ELSE IF SubSeq(s, 1, Len(old)) = old
    THEN new \o StrReplace(SubSeq(s, Len(old) + 1, Len(s)), old, new)
    ELSE <<Head(s)>> \o StrReplace(Tail(s), old, new)

\* the loop "for dr_role in dr_server_roles": the first DR role whose base
\* name equals the primary role without regard to case, or holds it, or is
\* held by it
RECURSIVE FirstDrRoleLike(_, _)
FirstDrRoleLike(primary_server_role, dr_server_roles) ==
    IF dr_server_roles = <<>> THEN <<>>
    ELSE LET dr_role == Head(dr_server_roles)
             base_dr_role == StrReplace(dr_role, s_minus_DR, <<>>)
         IN IF Lower(primary_server_role) = Lower(base_dr_role) THEN dr_role
            ELSE IF Contains(primary_server_role, base_dr_role)
                    \/ Contains(base_dr_role, primary_server_role)
            THEN dr_role
            ELSE FirstDrRoleLike(primary_server_role, Tail(dr_server_roles))

get_suggested_dr_role(primary_server_role, form_options) ==
    LET all_server_roles == Get(form_options.SERVER_ROLES, <<>>)
        dr_server_roles == SelectSeq(all_server_roles, LAMBDA role : Contains(s_minus_DR, role))
        suggested_dr_role == primary_server_role \o s_minus_DR
    IN IF Contains(s_DR, primary_server_role) THEN <<>>
       ELSE IF \E i \in DOMAIN dr_server_roles : dr_server_roles[i] = suggested_dr_role
       THEN suggested_dr_role
       ELSE FirstDrRoleLike(primary_server_role, dr_server_roles)

\* the SERVER_ROLES lists of the form options: primary roles followed by up to
\* MaxDrRoles different DR roles in any order, or no list at all
DrRolePool == {s_PAS_DR, s_ASCS_DR, s_SCS_DR, s_HANA_DB_DR}

ServerRoleLists ==
    { <<s_ASCS, s_ASCS_PAS, s_PAS>> \o dr :
          dr \in {l \in BoundedSeq(DrRolePool, MaxDrRoles) :
                     \A i, j \in DOMAIN l : i # j => l[i] # l[j]} }

PrimaryRolePool == {<<>>, s_ASCS, s_ASCS_PAS, s_PAS, s_pas, s_HANA_DB, s_AAS, s_PAS_DR}

CallGetSuggestedDrRole ==
    /\ op = "idle"
    /\ UNCHANGED <<files, sessions, clock, io>>
    /\ \E primary_server_role \in PrimaryRolePool,
          server_roles \in {Missing} \cup {Field(l) : l \in ServerRoleLists} :
        /\ op' = "sap_form.get_suggested_dr_role"
        /\ src' = NoSheet
        /\ args' = [primary_server_role |-> primary_server_role,
                    form_options |-> [SERVER_ROLES |-> server_roles]]
        /\ ret' = Ok(get_suggested_dr_role(primary_server_role, [SERVER_ROLES |-> server_roles]))

Next ==
    \/ CallGenerateServiceModelNames
    \/ CallGenerateServiceModelNamesEP
    \/ CallGetInstanceNumber
    \/ CallGetSapRegionLetter
    \/ CallGetSapRegionLetterEP
    \/ CallProcessSapDataToExcel
    \/ CallAddLoadBalancerSheet
    \/ CallGetAzZones
    \/ CallGetVmSize
    \/ CallRenderFormContent
    \/ CallRenderDrServers
    \/ CallGetSuggestedDrRole
    \/ Return

Spec == Init /\ [][Next]_vars

(***************************************************************************)
(* The Streamlit application and the files it shares.  Every browser       *)
(* session runs the script of sap_form.py from top to bottom on each       *)
(* interaction, and the sessions share one working directory.  A step is   *)
(* one script run of one session, or one run of a processor: op names the  *)
(* handler that ran, args its inputs, ret its outcome and io the file and  *)
(* workbook operations it performed, in order.                             *)
(***************************************************************************)
MaxEvents == 2

s_Template_xlsx == <<"T", "e", "m", "p", "l", "a", "t", "e", ".", "x", "l", "s", "x">>
s_Feeder_xlsx == <<"S", "A", "P", " ", "B", "u", "i", "l", "d", "s", "h", "e", "e", "t", " ", "A", "u", "t", "o", "m", "a", "t", "i", "o", "n", " ", "F", "e", "e", "d", "e", "r", ".", "x", "l", "s", "x">>
s_sap_form_data_json == <<"s", "a", "p", "_", "f", "o", "r", "m", "_", "d", "a", "t", "a", ".", "j", "s", "o", "n">>
s_Filled_SAP_Template_xlsx == <<"F", "i", "l", "l", "e", "d", "_", "S", "A", "P", "_", "T", "e", "m", "p", "l", "a", "t", "e", ".", "x", "l", "s", "x">>
s_sap_form_data_ == <<"s", "a", "p", "_", "f", "o", "r", "m", "_", "d", "a", "t", "a", "_">>
s_json == <<".", "j", "s", "o", "n">>
s_Unilever_Build_sheet_xlsx == <<"_", "U", "n", "i", "l", "e", "v", "e", "r", "_", "B", "u", "i", "l", "d", "_", "s", "h", "e", "e", "t", ".", "x", "l", "s", "x">>
s_AMS == <<"A", "M", "S">>
s_DUB == <<"D", "U", "B">>
s_prod == <<"p", "r", "o", "d">>
s_nonprod == <<"n", "o", "n", "p", "r", "o", "d">>
s_backup_ == <<"b", "a", "c", "k", "u", "p", "_">>

Sessions == {"A", "B"}
TabKeys == {s_prod, s_nonprod}
FileKinds == {"feeder", "template"}

\* feeder_file_path and template_file_path of render_file_management_tab
FilePath(kind) == IF kind = "feeder" THEN s_Feeder_xlsx ELSE s_Template_xlsx

\* open(name, "w") and a write: the disk afterwards.  writers is the history
\* of the name: the submissions that wrote it (0: none of them)
WriteFile(fs, name, kind, data, id) ==
    [n \in DOMAIN fs \cup {name} |->
        IF n = name
        THEN [kind |-> kind, data |-> data,
              writers |-> (IF name \in DOMAIN fs THEN fs[name].writers ELSE {}) \cup {id}]
        ELSE fs[n]]

\* os.rename(old, new)
RenameFile(fs, old, new) ==
    [n \in (DOMAIN fs \ {old}) \cup {new} |-> IF n = new THEN fs[old] ELSE fs[n]]

\* save_form_data(form_data, filename) for submission id: json.dump into the
\* working directory
save_form_data(fs, form_data, filename, id) == WriteFile(fs, filename, "json", form_data, id)

\* json_filename = f"sap_form_data_{form_type}_{sid}.json"
JsonFilename(form_type, sid) == s_sap_form_data_ \o form_type \o <<"_">> \o sid \o s_json

\* output_excel_path = f"{SID}_{SAP Region}_{region}_Unilever_Build_sheet.xlsx";
\* the SAP region name is kept as one piece of the name
OutputExcelPath(general_config) ==
    LET region == IF Contains(s_Amsterdam, general_config.AzureRegion.v) THEN s_AMS ELSE s_DUB
    IN Get(general_config.SID, <<"U", "n", "k", "n", "o", "w", "n">>) \o <<"_">>
       \o <<Get(general_config.SAPRegion, "")>> \o <<"_">> \o region \o s_Unilever_Build_sheet_xlsx

\* backup_path = f"backup_{now:%d%m%Y_%H%M%S}_{name}", the time being the
\* number of the event
BackupPath(time, name) == s_backup_ \o IntToStr(time) \o <<"_">> \o name

\* form_data as the submit handler assembles it from the widgets; the
\* production form offers the environment Production alone
FormData(tab_key, input) ==
    [ general_config |->
          [ AzureRegionCode |-> Field(get_region_code(s_AzAmsterdam)),
            Environment |-> Field(IF tab_key = s_prod THEN s_Production ELSE input.environment),
            ITSGID |-> Field(s_ITSG),
            SID |-> Field(input.sid),
            AzureSubscription |-> Field(input.azure_subscription),
            SAPRegion |-> Field("Sirius"),
            AZSelection |-> IF tab_key = s_nonprod THEN Field(<<"1">>) ELSE Missing,
            AzureRegion |-> Field(s_AzAmsterdam) ],
      server_data |-> <<Server(Field(s_PAS), Field(s_Yes))>> ]

ProcessOnDiskSaveFirst(fs, json_file_path, template_path, output_path, id) ==
    IF json_file_path \notin DOMAIN fs \/ template_path \notin DOMAIN fs
    THEN [exc |-> "FileNotFoundError", io |-> <<>>, fs |-> fs]
    ELSE LET form_data == fs[json_file_path].data
             rows == process_sap_data_to_excel(form_data.general_config, form_data.server_data)
         IN [exc |-> rows.exc, io |-> <<"json.load", "load_workbook", "save">>,
             fs |-> WriteFile(fs, output_path, "xlsx", rows.val, id)]

\* process_sap_data_to_excel(json_file_path, template_path, output_path) run
\* against the disk fs for submission id: the exception raised, the file and
\* workbook operations performed, and the disk afterwards
ProcessOnDisk(fs, json_file_path, template_path, output_path, id) ==
    IF json_file_path \notin DOMAIN fs
    THEN [exc |-> "FileNotFoundError", io |-> <<>>, fs |-> fs]
    ELSE IF template_path \notin DOMAIN fs
    THEN [exc |-> "FileNotFoundError", io |-> <<>>, fs |-> fs]
    ELSE LET form_data == fs[json_file_path].data
             rows == process_sap_data_to_excel(form_data.general_config, form_data.server_data)
         IN IF rows.exc # "none"
            THEN [exc |-> rows.exc, io |-> <<"json.load", "load_workbook">>, fs |-> fs]
            ELSE [exc |-> "none", io |-> <<"json.load", "load_workbook", "save">>,
                  fs |-> WriteFile(fs, output_path, "xlsx", rows.val, id)]

\* add_other_sheets(json_file_path, template_path, workbook) run against the
\* disk fs: it changes the workbook it was handed and writes no file
add_other_sheets(fs, json_file_path, template_path) ==
    IF json_file_path \notin DOMAIN fs
    THEN [exc |-> "FileNotFoundError", io |-> <<>>]
    ELSE IF template_path \notin DOMAIN fs
    THEN [exc |-> "FileNotFoundError", io |-> <<>>]
    ELSE [exc |-> "none", io |-> <<"json.load", "modify_workbook">>]

NoFormData == [general_config |-> <<>>, server_data |-> <<>>]

\* st.session_state of a session that has not run the script yet; seen is
\* the version of the copy the user downloaded since the session last saved
\* the file (-1: none); keys are the names of the entries the request forms
\* keep, num_servers and dr_servers_enabled the values of two of them, and
\* removed the DR servers removed since num_servers_prod last grew
NewSession ==
    [ tab_key |-> <<>>, just_submitted |-> FALSE, json_file_path |-> <<>>,
      form_data |-> NoFormData, submission |-> 0,
      downloaded |-> [k \in FileKinds |-> FALSE],
      upload |-> [k \in FileKinds |-> "none"],
      seen |-> [k \in FileKinds |-> -1],
      keys |-> {},
      num_servers |-> [t \in TabKeys |-> Missing],
      dr_servers_enabled |-> [t \in TabKeys |-> Missing],
      removed |-> {} ]

\* render_file_management_tab in a run without a click on its buttons: the
\* flag of a missing file is set, and an uploader that is not shown holds no file
FileTab(sess, fs) ==
    LET downloaded == [k \in FileKinds |->
                          IF FilePath(k) \in DOMAIN fs THEN sess.downloaded[k] ELSE TRUE]
    IN [sess EXCEPT !.downloaded = downloaded,
                    !.upload = [k \in FileKinds |-> IF downloaded[k] THEN sess.upload[k] ELSE "none"]]

FormInput(sid, environment, azure_subscription) ==
    [sid |-> sid, environment |-> environment, azure_subscription |-> azure_subscription]

\* what a user types into the form
FormInputs ==
    { FormInput(s_P01, s_Sandbox, s_Sub02), FormInput(s_P01, s_Training, s_Sub02),
      FormInput(s_P01, s_Sandbox, s_SubNoDash) }

ConfigFile == [kind |-> "xlsx", data |-> 0, writers |-> {0}]
JsonFile(input) == [kind |-> "json", data |-> FormData(s_nonprod, input), writers |-> {0}]

\* the working directory when the application starts
InitialDisks ==
    { (s_Template_xlsx :> ConfigFile) @@ (s_Feeder_xlsx :> ConfigFile)
          @@ (s_sap_form_data_json :> JsonFile(FormInput(s_P01, s_Sandbox, s_Sub02))),
      (s_Feeder_xlsx :> ConfigFile)
          @@ (s_sap_form_data_json :> JsonFile(FormInput(s_P01, s_Sandbox, s_Sub02))),
      (s_Template_xlsx :> ConfigFile),
      (s_Template_xlsx :> ConfigFile) @@ (s_Feeder_xlsx :> ConfigFile)
          @@ (s_sap_form_data_json :> JsonFile(FormInput(s_P01, s_Sandbox, s_SubNoDash))) }

SessionInit ==
    /\ op = "idle"
    /\ src = NoSheet
    /\ args = NoArgs
    /\ ret = Ok(<<>>)
    /\ io = <<>>
    /\ clock = 0
    /\ files \in InitialDisks
    /\ sessions = [s \in Sessions |-> NewSession]

\* a script run in which no button of the form or the file tab is pressed
Rerun(s) ==
    /\ ~ sessions[s].just_submitted
    /\ sessions' = [sessions EXCEPT ![s] = FileTab(@, files)]
    /\ op' = "sap_form.rerun"
    /\ args' = [session |-> s]
    /\ ret' = Ok(<<>>)
    /\ io' = <<>>
    /\ UNCHANGED <<src, files, clock>>

\* "if submit_button:" of render_form_content: the form data is saved and the
\* script is rerun
SubmitForm(s) ==
    /\ ~ sessions[s].just_submitted
    /\ clock < MaxEvents
    /\ \E tab_key \in TabKeys, input \in FormInputs :
        LET form_data == FormData(tab_key, input)
            json_filename == JsonFilename(tab_key, input.sid)
        IN /\ files' = save_form_data(files, form_data, json_filename, clock + 1)
           /\ sessions' = [sessions EXCEPT ![s] =
                              [@ EXCEPT !.tab_key = tab_key, !.just_submitted = TRUE,
                                        !.json_file_path = json_filename,
                                        !.form_data = form_data, !.submission = clock + 1]]
           /\ args' = [session |-> s, json_file_path |-> json_filename]
    /\ clock' = clock + 1
    /\ op' = "sap_form.submit"
    /\ ret' = Ok(<<>>)
    /\ io' = <<>>
    /\ UNCHANGED src

\* "if st.session_state.get(just_submitted)" of render_form_content: the run
\* after a submission builds the Excel file from the JSON file on disk.  The
\* processors the form imports, process_non_prod_data_to_excel and
\* process_prod_data_to_excel, are taken to be process_sap_data_to_excel.
ProcessSubmission(s) ==
    /\ sessions[s].just_submitted
    /\ LET sess == sessions[s]
           output_excel_path == OutputExcelPath(sess.form_data.general_config)
           run == ProcessOnDisk(files, sess.json_file_path, s_Template_xlsx, output_excel_path,
                                sess.submission)
       IN /\ IF s_Template_xlsx \notin DOMAIN files
             THEN files' = files /\ ret' = Raised("Excel template not found") /\ io' = <<>>
             ELSE files' = run.fs /\ ret' = Raised(run.exc) /\ io' = run.io
          /\ args' = [session |-> s, json_file_path |-> sess.json_file_path,
                      template_path |-> s_Template_xlsx, output_path |-> output_excel_path]
    /\ sessions' = [sessions EXCEPT ![s] = FileTab([@ EXCEPT !.just_submitted = FALSE], files')]
    /\ op' = "sap_form.process_submission"
    /\ UNCHANGED <<src, clock>>

\* "Download Current Version" of a file card
DownloadFile(s, kind) ==
    /\ ~ sessions[s].just_submitted
    /\ FilePath(kind) \in DOMAIN files
    /\ sessions' = [sessions EXCEPT ![s] =
                       FileTab([@ EXCEPT !.downloaded[kind] = TRUE,
                                         !.seen[kind] = files[FilePath(kind)].data], files)]
    /\ op' = "sap_form.download_file"
    /\ args' = [session |-> s, kind |-> kind]
    /\ ret' = Ok(<<>>)
    /\ io' = <<>>
    /\ UNCHANGED <<src, files, clock>>

\* a file is chosen in the uploader of a file card, which is shown while the
\* downloaded flag is set; it has the required sheets or not
UploadFile(s, kind) ==
    /\ ~ sessions[s].just_submitted
    /\ sessions[s].downloaded[kind]
    /\ \E checked \in {"valid", "invalid"} :
        sessions' = [sessions EXCEPT ![s] = FileTab([@ EXCEPT !.upload[kind] = checked], files)]
    /\ op' = "sap_form.upload_file"
    /\ args' = [session |-> s, kind |-> kind]
    /\ ret' = Ok(<<>>)
    /\ io' = <<>>
    /\ UNCHANGED <<src, files, clock>>

\* "Save Updated File" of a file card: the current file is renamed to a
\* backup, the uploaded one written, the flag reset and the script rerun
SaveFile(s, kind) ==
    /\ ~ sessions[s].just_submitted
    /\ sessions[s].downloaded[kind]
    /\ sessions[s].upload[kind] = "valid"
    /\ clock < MaxEvents
    /\ LET path == FilePath(kind)
           backed_up == IF path \in DOMAIN files
                        THEN RenameFile(files, path, BackupPath(clock + 1, path))
                        ELSE files
       IN files' = WriteFile(backed_up, path, "xlsx", clock + 1, 0)
    /\ sessions' = [sessions EXCEPT ![s] =
                       FileTab([@ EXCEPT !.downloaded[kind] = FALSE, !.seen[kind] = -1], files')]
    /\ clock' = clock + 1
    /\ op' = "sap_form.save_file"
    /\ args' = [session |-> s, kind |-> kind]
    /\ ret' = Ok(<<>>)
    /\ io' = <<>>
    /\ UNCHANGED src

\* python excel_processor.py
ExcelProcessorMain ==
    /\ LET run == ProcessOnDisk(files, s_sap_form_data_json, s_Template_xlsx,
                                s_Filled_SAP_Template_xlsx, 0)
       IN files' = run.fs /\ ret' = Raised(run.exc) /\ io' = run.io
    /\ op' = "excel_processor.__main__"
    /\ args' = [json_file_path |-> s_sap_form_data_json, template_path |-> s_Template_xlsx,
                output_path |-> s_Filled_SAP_Template_xlsx]
    /\ UNCHANGED <<src, sessions, clock>>

\* a call of add_other_sheets with a workbook the caller has loaded
CallAddOtherSheets ==
    /\ \E json_file_path \in {s_sap_form_data_json, JsonFilename(s_prod, s_P01)} :
        LET run == add_other_sheets(files, json_file_path, s_Template_xlsx)
        IN /\ ret' = Raised(run.exc)
           /\ io' = run.io
           /\ args' = [json_file_path |-> json_file_path, template_path |-> s_Template_xlsx]
    /\ op' = "utils.add_other_sheets"
    /\ UNCHANGED <<src, files, sessions, clock>>

\* the request forms and the processors
FormNext ==
    \/ \E s \in Sessions : SubmitForm(s)
    \/ \E s \in Sessions : ProcessSubmission(s)
    \/ ExcelProcessorMain
    \/ CallAddOtherSheets

FormSpec == SessionInit /\ [][FormNext]_vars

\* the File Management tab
FileNext ==
    \/ \E s \in Sessions : Rerun(s)
    \/ \E s \in Sessions, kind \in FileKinds : DownloadFile(s, kind)
    \/ \E s \in Sessions, kind \in FileKinds : UploadFile(s, kind)
    \/ \E s \in Sessions, kind \in FileKinds : SaveFile(s, kind)

FileSpec == SessionInit /\ [][FileNext]_vars

(***************************************************************************)
(* sap_form.py: the servers of a request form.  A session keeps the number *)
(* of servers of each form, the DR servers enabled on it and the state of  *)
(* the widgets under keys that end in the tab key, or in the tab key and   *)
(* the index of a server.                                                  *)
(***************************************************************************)
MaxNumServers == 4

s_num_servers == <<"n", "u", "m", "_", "s", "e", "r", "v", "e", "r", "s">>
s_form_submitted == <<"f", "o", "r", "m", "_", "s", "u", "b", "m", "i", "t", "t", "e", "d">>
s_dr_servers_enabled == <<"d", "r", "_", "s", "e", "r", "v", "e", "r", "s", "_", "e", "n", "a", "b", "l", "e", "d">>
s_sid == <<"s", "i", "d">>
s_num_servers_input == <<"n", "u", "m", "_", "s", "e", "r", "v", "e", "r", "s", "_", "i", "n", "p", "u", "t">>
s_server_role == <<"s", "e", "r", "v", "e", "r", "_", "r", "o", "l", "e">>
s_os_version == <<"o", "s", "_", "v", "e", "r", "s", "i", "o", "n">>
s_dr_server_role == <<"d", "r", "_", "s", "e", "r", "v", "e", "r", "_", "r", "o", "l", "e">>
s_dr_os_version == <<"d", "r", "_", "o", "s", "_", "v", "e", "r", "s", "i", "o", "n">>
s_dr_ == <<"d", "r", "_">>

\* str.startswith and str.endswith
StartsWith(s, prefix) == Len(prefix) <= Len(s) /\ SubSeq(s, 1, Len(prefix)) = prefix
EndsWith(s, suffix) == Len(suffix) <= Len(s) /\ SubSeq(s, Len(s) - Len(suffix) + 1, Len(s)) = suffix

\* f"{name}_{tab_key}" and f"{name}_{tab_key}_{i}"
TabKey(name, tab_key) == name \o <<"_">> \o tab_key
ServerKey(name, tab_key, i) == name \o <<"_">> \o tab_key \o <<"_">> \o IntToStr(i)

\* the entries "Initialize session state for this tab" creates, and the
\* widgets of the form, of a primary server and of a DR server
InitNames == {s_num_servers, s_form_submitted, s_dr_servers_enabled}
FormWidgetNames == {s_sid, s_num_servers_input}
ServerWidgetNames == {s_server_role, s_os_version}
DrWidgetNames == {s_dr_server_role, s_dr_os_version}

\* list(range(n))
RangeList(n) == [i \in 1..n |-> i - 1]

\* the elements of a list
Elements(l) == {l[i] : i \in DOMAIN l}

\* list.remove(x): the first x is taken out
ListRemove(l, x) ==
    LET at == CHOOSE i \in DOMAIN l : l[i] = x /\ \A j \in 1..(i - 1) : l[j] # x
    IN SubSeq(l, 1, at - 1) \o SubSeq(l, at + 1, Len(l))

ReconcileDrServersNoFilter(dr_servers_enabled, current_num_servers) ==
    LET max_existing_index ==
            IF dr_servers_enabled # <<>>
            THEN CHOOSE m \in Elements(dr_servers_enabled) : \A x \in Elements(dr_servers_enabled) : x <= m
            ELSE -1
        appended == dr_servers_enabled
                    \o Ascending({i \in (max_existing_index + 1)..(current_num_servers - 1) :
                                     i \notin Elements(dr_servers_enabled)})
    IN SortSeq(appended, LAMBDA a, b : a < b)

\* "Update the enabled DR servers list when number of servers changes": the
\* servers after the largest index enabled are appended, the indices from
\* current_num_servers on are dropped and the list is sorted
ReconcileDrServers(dr_servers_enabled, current_num_servers) ==
    LET max_existing_index ==
            IF dr_servers_enabled # <<>>
            THEN CHOOSE m \in Elements(dr_servers_enabled) : \A x \in Elements(dr_servers_enabled) : x <= m
            ELSE -1
        appended == dr_servers_enabled
                    \o Ascending({i \in (max_existing_index + 1)..(current_num_servers - 1) :
                                     i \notin Elements(dr_servers_enabled)})
        kept == SelectSeq(appended, LAMBDA i : i < current_num_servers)
    IN SortSeq(kept, LAMBDA a, b : a < b)

\* the keys of the widgets a run of render_form_content draws
RenderedKeys(tab_key, num_servers, dr_servers_enabled) ==
    {TabKey(name, tab_key) : name \in FormWidgetNames}
    \cup {ServerKey(name, tab_key, i) : name \in ServerWidgetNames, i \in 0..(num_servers - 1)}
    \cup (IF tab_key = s_prod
          THEN {ServerKey(name, tab_key, i) : name \in DrWidgetNames, i \in Elements(dr_servers_enabled)}
          ELSE {})

\* the keys of the widgets of a form, drawn or not
IsWidgetKey(key, tab_key) ==
    \/ \E name \in FormWidgetNames : key = TabKey(name, tab_key)
    \/ \E name \in ServerWidgetNames \cup DrWidgetNames :
           StartsWith(key, TabKey(name, tab_key) \o <<"_">>)

\* render_form_content(tab_key, is_production) up to the submit form, in a
\* run without a click: the entries of the tab are created where they are
\* missing, the production form reconciles its DR servers, and the widgets
\* are drawn (the state of a widget that is not drawn is discarded)
render_tab(sess, tab_key) ==
    LET num_servers == Get(sess.num_servers[tab_key], 1)
        initial == IF sess.dr_servers_enabled[tab_key].present
                   THEN sess.dr_servers_enabled[tab_key].v
                   ELSE RangeList(num_servers)
        enabled == IF tab_key = s_prod THEN ReconcileDrServers(initial, num_servers) ELSE initial
    IN [sess EXCEPT !.num_servers[tab_key] = Field(num_servers),
                    !.dr_servers_enabled[tab_key] = Field(enabled),
                    !.keys = {k \in sess.keys : ~ IsWidgetKey(k, tab_key)}
                             \cup {TabKey(name, tab_key) : name \in InitNames}
                             \cup RenderedKeys(tab_key, num_servers, enabled)]

\* a run of the script: the production tab, then the non-production tab
RunScript(sess) == render_tab(render_tab(sess, s_prod), s_nonprod)

\* remove_dr_server(tab_key, server_index)
remove_dr_server(sess, tab_key, server_index) ==
    IF server_index \in Elements(sess.dr_servers_enabled[tab_key].v)
    THEN [sess EXCEPT !.dr_servers_enabled[tab_key] = Field(ListRemove(@.v, server_index)),
                      !.keys = {k \in @ : ~ (StartsWith(k, s_dr_)
                                             /\ EndsWith(k, <<"_">> \o tab_key \o <<"_">> \o IntToStr(server_index)))}]
    ELSE sess

\* the Reset button: "keys_to_clear = [key for key in st.session_state.keys()
\* if key.endswith(f'_{tab_key}')]" and the deletion of these keys
ResetTab(sess, tab_key) ==
    [sess EXCEPT !.keys = {k \in @ : ~ EndsWith(k, <<"_">> \o tab_key)},
                 !.num_servers[tab_key] = Missing,
                 !.dr_servers_enabled[tab_key] = Missing]

\* a run of the script without a click on the forms
RunForm(s) ==
    /\ sessions' = [sessions EXCEPT ![s] = RunScript(@)]
    /\ op' = "sap_form.render_form"
    /\ args' = [session |-> s]
    /\ ret' = Ok(<<>>)
    /\ io' = <<>>
    /\ UNCHANGED <<src, files, clock>>

\* the number input of the production form: update_num_servers stores the
\* number, then the script runs
ChangeNumServers(s) ==
    /\ sessions[s].num_servers[s_prod].present
    /\ \E num_servers \in 1..MaxNumServers :
        /\ sessions' = [sessions EXCEPT ![s] =
                           RunScript([@ EXCEPT !.num_servers[s_prod] = Field(num_servers),
                                               !.removed = IF num_servers > sessions[s].num_servers[s_prod].v
                                                           THEN {} ELSE @])]
        /\ args' = [session |-> s, num_servers |-> num_servers]
    /\ op' = "sap_form.update_num_servers"
    /\ ret' = Ok(<<>>)
    /\ io' = <<>>
    /\ UNCHANGED <<src, files, clock>>

\* the Remove button of a DR server: the run reaches the button,
\* remove_dr_server takes the server out and st.rerun() runs the script again
RemoveDrServer(s) ==
    /\ sessions[s].dr_servers_enabled[s_prod].present
    /\ \E server_index \in Elements(sessions[s].dr_servers_enabled[s_prod].v) :
        /\ sessions' = [sessions EXCEPT ![s] =
                           RunScript([remove_dr_server(render_tab(@, s_prod), s_prod, server_index)
                                         EXCEPT !.removed = @ \cup {server_index}])]
        /\ args' = [session |-> s, server_index |-> server_index]
    /\ op' = "sap_form.remove_dr_server"
    /\ ret' = Ok(<<>>)
    /\ io' = <<>>
    /\ UNCHANGED <<src, files, clock>>

\* the Reset button of a form: the run reaches the button, the keys are
\* deleted (ret holds the keys left at that point) and st.rerun() runs the
\* script again
ResetForm(s) ==
    /\ \E tab_key \in TabKeys :
        /\ sessions[s].num_servers[tab_key].present
        /\ LET reached == IF tab_key = s_prod THEN render_tab(sessions[s], s_prod)
                          ELSE RunScript(sessions[s])
               cleared == ResetTab(reached, tab_key)
           IN /\ ret' = Ok(cleared.keys)
              /\ sessions' = [sessions EXCEPT ![s] =
                                 RunScript([cleared EXCEPT !.removed = IF tab_key = s_prod THEN {} ELSE @])]
        /\ args' = [session |-> s, tab_key |-> tab_key]
    /\ op' = "sap_form.reset"
    /\ io' = <<>>
    /\ UNCHANGED <<src, files, clock>>

\* st.session_state is private to a session and the forms read no file the
\* sessions write: one session is followed, in an empty working directory
ServerInit ==
    /\ op = "idle"
    /\ src = NoSheet
    /\ args = NoArgs
    /\ ret = Ok(<<>>)
    /\ io = <<>>
    /\ clock = 0
    /\ files = <<>>
    /\ sessions = [s \in Sessions |-> NewSession]

ServerNext ==
    \/ RunForm("A")
    \/ ChangeNumServers("A")
    \/ RemoveDrServer("A")
    \/ ResetForm("A")

ServerSpec == ServerInit /\ [][ServerNext]_vars

(***************************************************************************)
(* utils.py: the layout sheets add_other_sheets keeps in the workbook.  A  *)
(* sheet is its title and, to follow it through a renaming, the title it   *)
(* had in the template.                                                    *)
(***************************************************************************)
MaxLayoutServers == 2

s_DB2_DB == <<"D", "B", "2", " ", "D", "B">>
s_APO == <<"A", "P", "O">>
s_IQ == <<"I", "Q">>
s_Optimizer == <<"O", "p", "t", "i", "m", "i", "z", "e", "r">>
s_Prod == <<"P", "r", "o", "d">>
s_Non_Prod == <<"N", "o", "n", "_", "P", "r", "o", "d">>
s_non_prod == <<"n", "o", "n", "_", "p", "r", "o", "d">>
s_v1 == <<"v", "1">>
s_v2 == <<"v", "2">>
s_sheet_SAP == <<"S", "A", "P">>
s_ASCS_PAS_NFS == <<"A", "S", "C", "S", "+", "P", "A", "S", "+", "N", "F", "S">>
s_ASCS_Non_Prod == <<"A", "S", "C", "S", " ", "N", "o", "n", "_", "P", "r", "o", "d">>
s_ASCS_Prod == <<"A", "S", "C", "S", " ", "P", "r", "o", "d">>
s_PAS_Non_Prod == <<"P", "A", "S", " ", "N", "o", "n", "_", "P", "r", "o", "d">>
s_PAS_Prod == <<"P", "A", "S", " ", "P", "r", "o", "d">>
s_HANA_Prod == <<"H", "A", "N", "A", " ", "P", "r", "o", "d">>
s_HANA_v2_Prod == <<"H", "A", "N", "A", "_", "v", "2", " ", "P", "r", "o", "d">>
s_hana_non_prod == <<"h", "a", "n", "a", " ", "n", "o", "n", "_", "p", "r", "o", "d">>
s_DB2_DB_Prod == <<"D", "B", "2", " ", "D", "B", " ", "P", "r", "o", "d">>
s_DB2_DB_v2_Prod == <<"D", "B", "2", " ", "D", "B", "_", "v", "2", " ", "P", "r", "o", "d">>
s_FS_Layout_NFS == <<"F", "S", " ", "L", "a", "y", "o", "u", "t", " ", "A", "S", "C", "S", "+", "P", "A", "S", "+", "N", "F", "S">>
s_FS_Layout_HANA == <<"F", "S", " ", "L", "a", "y", "o", "u", "t", " ", "H", "A", "N", "A">>
s_FS_Layout_DB2 == <<"F", "S", " ", "L", "a", "y", "o", "u", "t", " ", "D", "B", "2">>
s_FS_Layout_MaxDB == <<"F", "S", " ", "L", "a", "y", "o", "u", "t", " ", "M", "a", "x", "D", "B">>
s_FS_Layout_ASCS == <<"F", "S", " ", "L", "a", "y", "o", "u", "t", " ", "A", "S", "C", "S">>
s_FS_Layout_PAS_AAS == <<"F", "S", " ", "L", "a", "y", "o", "u", "t", " ", "P", "A", "S", "_", "A", "A", "S">>
s_FS_Layout_APO == <<"F", "S", " ", "L", "a", "y", "o", "u", "t", " ", "A", "P", "O">>
s_FS_Layout_IQ == <<"F", "S", " ", "L", "a", "y", "o", "u", "t", " ", "I", "Q">>
s_FS_Layout_Optimizer == <<"F", "S", " ", "L", "a", "y", "o", "u", "t", " ", "O", "p", "t", "i", "m", "i", "z", "e", "r">>

Sheet(title) == [title |-> title, was |-> title]

\* next((name for name in workbook.sheetnames if name.lower() ==
\* sheet_name.lower()), None): the position of the sheet, 0 for None
FindSheet(workbook, sheet_name) ==
    LET hits == {i \in DOMAIN workbook : Lower(workbook[i].title) = Lower(sheet_name)}
    IN IF hits = {} THEN 0 ELSE CHOOSE i \in hits : \A j \in hits : i <= j

\* "for sheet_name in sheets_to_remove: if sheet_name in workbook.sheetnames:
\* workbook.remove(workbook[sheet_name])"
RemoveTitles(workbook, titles) == SelectSeq(workbook, LAMBDA sh : sh.title \notin titles)

\* remove_sheets_if_unused(sheet_names)
RECURSIVE remove_sheets_if_unused(_, _)
remove_sheets_if_unused(workbook, sheet_names) ==
    IF sheet_names = <<>> THEN workbook
    ELSE LET at == FindSheet(workbook, Head(sheet_names))
             rest == IF at = 0 THEN workbook
                     ELSE SubSeq(workbook, 1, at - 1) \o SubSeq(workbook, at + 1, Len(workbook))
         IN remove_sheets_if_unused(rest, Tail(sheet_names))

\* is_production of add_other_sheets
LayoutIsProduction(general_config) ==
    LET environment == Lower(Get(general_config.Environment, <<>>))
    IN Contains(s_production, environment) \/ Contains(s_prod, environment)

\* role_versions: the version of the first server of each role
RECURSIVE RoleVersions(_, _)
RoleVersions(server_data, d) ==
    IF server_data = <<>> THEN d
    ELSE LET role == Get(Head(server_data).ServerRole, <<>>)
             version == Get(Head(server_data).ServerRoleVersion, <<>>)
         IN RoleVersions(Tail(server_data),
                         IF role # <<>> /\ ~ HasKey(d, role) THEN DictSet(d, role, version) ELSE d)

\* role_flags
RoleFlags(server_data) ==
    LET server_roles == {Get(server_data[i].ServerRole, <<>>) : i \in DOMAIN server_data}
    IN [ has_nfs |-> \E role \in server_roles : Contains(<<"+">>, role),
         has_hana |-> \E role \in server_roles : Contains(s_HANA, role),
         has_db2 |-> \E role \in server_roles : Contains(s_DB2, role),
         has_maxdb |-> \E role \in server_roles : Contains(s_MaxDB, role),
         has_ascs_dr |-> \E role \in server_roles : role \in {s_ASCS_DR, s_SCS_DR},
         has_ascs |-> \E role \in server_roles : role \in {s_ASCS, s_SCS},
         has_apo |-> \E role \in server_roles : Contains(s_APO, role),
         has_iq |-> \E role \in server_roles : Contains(s_IQ, role),
         has_optimizer |-> \E role \in server_roles : Contains(s_Optimizer, role),
         only_pas_aas |-> \E role \in server_roles : role \in {s_PAS, s_AAS, s_PAS_DR, s_AAS_DR} ]

\* get_possible_sheet_names(base_role, environment_suffix): the version is
\* looked up under base_role in role_versions
get_possible_sheet_names(base_role, environment_suffix, role_versions, is_production) ==
    LET role_version == DictGet(role_versions, base_role, <<>>)
    IN IF is_production /\ environment_suffix = s_Prod
       THEN (IF role_version # <<>>
             THEN <<base_role \o <<"_">> \o role_version \o <<" ">> \o environment_suffix>>
             ELSE <<>>)
            \o <<base_role \o <<" ">> \o environment_suffix>>
            \o (IF role_version = <<>>
                THEN <<base_role \o <<"_">> \o s_v1 \o <<" ">> \o environment_suffix,
                       base_role \o <<"_">> \o s_v2 \o <<" ">> \o environment_suffix>>
                ELSE <<>>)
       ELSE <<base_role \o <<" ">> \o environment_suffix>>

\* "base_role.lower() in sheet_name.lower() and ("prod" in sheet_name.lower()
\* or "non_prod" in sheet_name.lower())"
IsRoleSheet(base_role, sheet_name) ==
    /\ Contains(Lower(base_role), Lower(sheet_name))
    /\ (Contains(s_prod, Lower(sheet_name)) \/ Contains(s_non_prod, Lower(sheet_name)))

select_and_rename_sheet_with_version_keep_all(workbook, base_role, target_name, role_versions, is_production) ==
    LET env_suffix == IF is_production THEN s_Prod ELSE s_Non_Prod
        possible_names == get_possible_sheet_names(base_role, env_suffix, role_versions, is_production)
        found == {i \in DOMAIN possible_names : FindSheet(workbook, possible_names[i]) # 0}
        selected == IF found = {} THEN 0
                    ELSE FindSheet(workbook, possible_names[CHOOSE i \in found : \A j \in found : i <= j])
    IN IF selected = 0 THEN workbook ELSE [workbook EXCEPT ![selected].title = target_name]

\* select_and_rename_sheet_with_version(base_role, target_name): the workbook
\* afterwards
select_and_rename_sheet_with_version(workbook, base_role, target_name, role_versions, is_production) ==
    LET env_suffix == IF is_production THEN s_Prod ELSE s_Non_Prod
        possible_names == get_possible_sheet_names(base_role, env_suffix, role_versions, is_production)
        all_role_sheets == {workbook[i].title : i \in {j \in DOMAIN workbook : IsRoleSheet(base_role, workbook[j].title)}}
        found == {i \in DOMAIN possible_names : FindSheet(workbook, possible_names[i]) # 0}
        selected == IF found = {} THEN 0
                    ELSE FindSheet(workbook, possible_names[CHOOSE i \in found : \A j \in found : i <= j])
        sheets_to_remove == {name \in all_role_sheets : selected = 0 \/ name # workbook[selected].title}
        renamed == IF selected = 0 THEN workbook ELSE [workbook EXCEPT ![selected].title = target_name]
    IN RemoveTitles(renamed, sheets_to_remove)

\* the loop of select_and_rename_sheet over sheet_mapping: the workbook and
\* sheets_to_remove after it
RECURSIVE SelectByEnvironment(_, _, _, _, _)
SelectByEnvironment(workbook, sheet_mapping, target_name, is_production, sheets_to_remove) ==
    IF sheet_mapping = <<>> THEN [workbook |-> workbook, sheets_to_remove |-> sheets_to_remove]
    ELSE LET at == FindSheet(workbook, Head(sheet_mapping).key)
             sheet_env == Head(sheet_mapping).val
             chosen == (is_production /\ sheet_env = "prod") \/ (~ is_production /\ sheet_env = "non_prod")
         IN IF at = 0
            THEN SelectByEnvironment(workbook, Tail(sheet_mapping), target_name, is_production, sheets_to_remove)
            ELSE IF chosen
            THEN SelectByEnvironment([workbook EXCEPT ![at].title = target_name], Tail(sheet_mapping),
                                     target_name, is_production, sheets_to_remove)
            ELSE SelectByEnvironment(workbook, Tail(sheet_mapping), target_name, is_production,
                                     sheets_to_remove \cup {workbook[at].title})

\* select_and_rename_sheet(sheet_mapping, target_name): the workbook afterwards
select_and_rename_sheet(workbook, sheet_mapping, target_name, is_production) ==
    LET done == SelectByEnvironment(workbook, sheet_mapping, target_name, is_production, {})
    IN RemoveTitles(done.workbook, done.sheets_to_remove)

\* sheet_configs, in the order of the dict
SheetConfigs ==
    << [type |-> "nfs", condition |-> "has_nfs", use_version_logic |-> FALSE, base_role |-> <<>>,
        sheet_mapping |-> <<KV(s_ASCS_PAS_NFS, "single")>>, target_name |-> s_FS_Layout_NFS],
       [type |-> "hana", condition |-> "has_hana", use_version_logic |-> TRUE, base_role |-> s_HANA,
        sheet_mapping |-> <<>>, target_name |-> s_FS_Layout_HANA],
       [type |-> "db2", condition |-> "has_db2", use_version_logic |-> TRUE, base_role |-> s_DB2_DB,
        sheet_mapping |-> <<>>, target_name |-> s_FS_Layout_DB2],
       [type |-> "maxdb", condition |-> "has_maxdb", use_version_logic |-> TRUE, base_role |-> s_MaxDB,
        sheet_mapping |-> <<>>, target_name |-> s_FS_Layout_MaxDB],
       [type |-> "ascs", condition |-> "has_ascs", use_version_logic |-> FALSE, base_role |-> <<>>,
        sheet_mapping |-> <<KV(s_ASCS_Non_Prod, "non_prod"), KV(s_ASCS_Prod, "prod")>>,
        target_name |-> s_FS_Layout_ASCS],
       [type |-> "pas", condition |-> "only_pas_aas", use_version_logic |-> FALSE, base_role |-> <<>>,
        sheet_mapping |-> <<KV(s_PAS_Non_Prod, "non_prod"), KV(s_PAS_Prod, "prod")>>,
        target_name |-> s_FS_Layout_PAS_AAS],
       [type |-> "apo", condition |-> "has_apo", use_version_logic |-> TRUE, base_role |-> s_APO,
        sheet_mapping |-> <<>>, target_name |-> s_FS_Layout_APO],
       [type |-> "iq", condition |-> "has_iq", use_version_logic |-> TRUE, base_role |-> s_IQ,
        sheet_mapping |-> <<>>, target_name |-> s_FS_Layout_IQ],
       [type |-> "optimizer", condition |-> "has_optimizer", use_version_logic |-> TRUE,
        base_role |-> s_Optimizer, sheet_mapping |-> <<>>, target_name |-> s_FS_Layout_Optimizer] >>

\* config['condition']
ConfigCondition(config, role_flags) ==
    IF config.type = "ascs" THEN role_flags.has_ascs \/ role_flags.has_ascs_dr
    ELSE role_flags[config.condition]

\* the body of "for sheet_type, config in sheet_configs.items()": the
\* workbook after the step of one configuration
ProcessSheetConfig(workbook, config, role_flags, role_versions, is_production) ==
    IF ConfigCondition(config, role_flags)
    THEN IF config.use_version_logic
         THEN select_and_rename_sheet_with_version(workbook, config.base_role, config.target_name,
                                                   role_versions, is_production)
         ELSE IF \E i \in DOMAIN config.sheet_mapping : config.sheet_mapping[i].val = "single"
         THEN LET at == FindSheet(workbook, config.sheet_mapping[1].key)
              IN IF at = 0 THEN workbook ELSE [workbook EXCEPT ![at].title = config.target_name]
         ELSE select_and_rename_sheet(workbook, config.sheet_mapping, config.target_name, is_production)
    ELSE IF config.use_version_logic
         THEN remove_sheets_if_unused(workbook,
                  LET names == SelectSeq(workbook, LAMBDA sh : IsRoleSheet(config.base_role, sh.title))
                  IN [i \in DOMAIN names |-> names[i].title])
         ELSE remove_sheets_if_unused(workbook, [i \in DOMAIN config.sheet_mapping |-> config.sheet_mapping[i].key])

\* the workbooks before the loop over sheet_configs and after the step of
\* each configuration, steps being those up to the configuration n - 1
RECURSIVE SheetSteps(_, _, _, _, _)
SheetSteps(steps, n, role_flags, role_versions, is_production) ==
    IF n > Len(SheetConfigs) THEN steps
    ELSE SheetSteps(Append(steps, ProcessSheetConfig(steps[Len(steps)], SheetConfigs[n], role_flags,
                                                     role_versions, is_production)),
                    n + 1, role_flags, role_versions, is_production)

\* the part of add_other_sheets that selects the sheets
ProcessSheetConfigs(workbook, general_config, server_data) ==
    SheetSteps(<<workbook>>, 1, The({RoleFlags(d) : d \in {server_data}}),
               The({RoleVersions(d, <<>>) : d \in {server_data}}), LayoutIsProduction(general_config))

\* the servers of a form: role and version
LayoutServer(role, version) == [ServerRole |-> Field(role), ServerRoleVersion |-> version]

LayoutServerPool ==
    { LayoutServer(s_HANA_DB, Field(s_v2)), LayoutServer(s_DB2_DB, Field(s_v2)),
      LayoutServer(s_ASCS_PAS, Missing) }

\* the layout sheets a template may hold after the sheet "SAP": any of the
\* sheets of the families with versions, then the other sheets
LayoutSheetPool == <<s_HANA_Prod, s_HANA_v2_Prod, s_hana_non_prod, s_DB2_DB_Prod, s_DB2_DB_v2_Prod>>

OtherLayoutSheets ==
    { <<>>, <<s_ASCS_Non_Prod>>, <<s_ASCS_PAS_NFS, s_ASCS_Non_Prod, s_ASCS_Prod, s_PAS_Prod>> }

Templates ==
    { <<Sheet(s_sheet_SAP)>> \o [i \in DOMAIN picked |-> Sheet(picked[i])] :
          picked \in {SelectSeq(LayoutSheetPool, LAMBDA name : name \in chosen) \o others :
                         chosen \in SUBSET {LayoutSheetPool[i] : i \in DOMAIN LayoutSheetPool},
                         others \in OtherLayoutSheets} }

LayoutEnvironments == {s_Production, s_Sandbox}

\* add_other_sheets on a workbook loaded from the template: ret is the
\* workbook returned, io the workbook before the loop and after the step of
\* each configuration
CallSelectSheets ==
    /\ op = "idle"
    /\ UNCHANGED <<files, sessions, clock>>
    /\ \E workbook \in Templates, environment \in LayoutEnvironments,
          server_data \in BoundedSeq(LayoutServerPool, MaxLayoutServers) :
        LET general_config == [Environment |-> Field(environment)]
        IN /\ op' = "utils.add_other_sheets.sheets"
           /\ src' = NoSheet
           /\ args' = [general_config |-> general_config, server_data |-> server_data, workbook |-> workbook]
           /\ \E steps \in {ProcessSheetConfigs(workbook, general_config, server_data)} :
                  io' = steps /\ ret' = Ok(steps[Len(steps)])

\* a return that also drops the record of the steps
ReturnSheets ==
    /\ op # "idle"
    /\ op' = "idle"
    /\ src' = NoSheet
    /\ args' = NoArgs
    /\ ret' = Ok(<<>>)
    /\ io' = <<>>
    /\ UNCHANGED <<files, sessions, clock>>

SheetNext == CallSelectSheets \/ ReturnSheets

SheetSpec == Init /\ [][SheetNext]_vars

(***************************************************************************)
(* Properties.  A property reads the call in progress: op names the        *)
(* routine, args its arguments, src the sheet it read and ret its result.  *)
(***************************************************************************)
InUtilsNames == op = "utils.generate_service_model_names"
InEpNames == op = "excel_processor.generate_service_model_names"
InInstanceNumber == op = "utils.get_instance_number"
InProcess == op = "excel_processor.process_sap_data_to_excel"
InLoadBalancer == op = "utils.add_load_balancer_sheet"

IsCombined(role) == Contains(<<"+">>, role)
AllStringKeys(d) == \A i \in 1..Len(d) : d[i].key.k = "str"

\* the identifier mapping a name call resolves against
MappingInUse ==
    IF InUtilsNames
    THEN UpdateAasCode(LoadIdentifierMapping(src), args.server_role, args.city, args.aas_counter).val
    ELSE EP_LoadIdentifierMapping(src)

\* the documented SAP-region -> letter table
DocumentedLetter(sap_region) ==
    CASE sap_region = "Sirius" -> "e"
      [] sap_region = "U2K2" -> "a"
      [] sap_region = "Cordillera" -> "t"
      [] sap_region = "Global" -> "o"
      [] sap_region = "POC/Model Env" -> "x"
      [] OTHER -> "x"

\* {region_letter}{sid_lower}{code}.{region_code}.unilever.com
DocumentedName(sap_region, sid, code, region_code) ==
    <<DocumentedLetter(sap_region)>> \o Lower(sid) \o code \o <<".">> \o region_code
        \o <<".", "u", "n", "i", "l", "e", "v", "e", "r", ".", "c", "o", "m">>

s_ep01001a == <<"e", "p", "0", "1", "0", "0", "1", "a", ".", "e", "u", ".", "u", "n", "i", "l", "e", "v", "e", "r", ".", "c", "o", "m">>

\* key i is the only key of d that occurs in the role
OnlyKeyInRole(d, i, role) ==
    /\ AllStringKeys(d)
    /\ Contains(d[i].key.s, role)
    /\ \A j \in 1..Len(d) : j # i => ~ Contains(d[j].key.s, role)

SubRoles(role) ==
    LET parts == Split(role, "+") IN [i \in 1..Len(parts) |-> Strip(parts[i])]

\* the result of the name call in progress repeated for a single role
NameOfSingle(role) ==
    IF InUtilsNames
    THEN generate_service_model_names(role, args.sid, args.sap_region, args.city,
                                      args.region_code, src, args.aas_counter)
    ELSE EP_generate_service_model_names(role, args.sid, args.sap_region, args.region_code, src)

NonEmpty(names) == SelectSeq(names, LAMBDA n : n # <<>>)

\* C2: the name list of a combined role r1+...+rn is the "; "-join, in sub-role
\* order, of the names the same call returns for each ri on its own.
C2_CombinedIsJoinOfSingles ==
    ((InUtilsNames \/ InEpNames) /\ IsCombined(args.server_role)) =>
        LET subs == SubRoles(args.server_role)
            singles == [i \in 1..Len(subs) |-> NameOfSingle(subs[i])]
        IN (ret.exc = "none" /\ \A i \in 1..Len(subs) : singles[i].exc = "none") =>
             ret.val = Join(NonEmpty([i \in 1..Len(subs) |-> singles[i].val]), <<";", " ">>)

\* C3: with aas_counter = N, a single AAS role in Amsterdam or Dublin whose
\* mapping has an AAS identifier for the city gets the code base + N - 1
\* (base 102 for Amsterdam, 202 for Dublin), so consecutive counters give codes
\* that differ by exactly 1.
C3_AasCodeIsBasePlusCounter ==
    (/\ InUtilsNames
     /\ Contains(s_AAS, args.server_role) /\ ~ IsCombined(args.server_role)
     /\ args.aas_counter.given
     /\ args.city \in {s_Amsterdam, s_Dublin}
     /\ AllStringKeys(LoadIdentifierMapping(src))
     /\ \E i \in 1..Len(LoadIdentifierMapping(src)) :
            AasCityMatch(LoadIdentifierMapping(src)[i].key.s, args.city))
    => LET base == IF args.city = s_Amsterdam THEN 102 ELSE 202
           code == Format03d(base + args.aas_counter.n - 1) \o <<"a">>
       IN ret = Ok(DocumentedName(args.sap_region, args.sid, code, args.region_code))

\* the instance mapping the call in progress resolves against
InstanceMappingInUse == LoadInstanceMapping(src)

\* the entry that get_instance_number matches for a single role (0: none)
InstanceMatch ==
    LET base_role == BaseRole(args.server_role)
        sap_role == IF Upper(base_role) = s_AAS THEN s_SAP_AAS1n ELSE s_SAP_ \o base_role
    IN MatchedRole(InstanceMappingInUse, sap_role, base_role)

\* the table holds only a Standalone entry for the matched role
OnlyStandalone ==
    /\ InstanceMatch > 0
    /\ {InstanceMappingInUse[InstanceMatch].val[j].key :
            j \in 1..Len(InstanceMappingInUse[InstanceMatch].val)} = {s_Standalone}

\* C4: for a single "-HA" role in Production whose matched role has only a
\* Standalone entry, get_instance_number returns that entry's "Production & DR"
\* value, which is not empty when the entry holds a value.
C4_ClusteredFallsBackToStandalone ==
    (/\ InInstanceNumber
     /\ ~ IsCombined(args.server_role)
     /\ Contains(s_HA, args.server_role)
     /\ args.environment_type = s_Production
     /\ OnlyStandalone)
    => LET standalone == Lookup(InstanceMappingInUse[InstanceMatch].val, s_Standalone)
       IN /\ ret = Ok(standalone.ProductionDR)
          /\ standalone.ProductionDR # <<>> => ret.val # <<>>

\* C4 witness: PAS-HA in Production against a sheet with the one row
\* SAP PAS / Standalone / 20
C4_Witness ==
    /\ InInstanceNumber
    /\ args.server_role = s_PAS_HA /\ args.environment_type = s_Production
    /\ src.readable /\ Len(src.rows) = 1 /\ OnlyStandalone
    /\ ret = Ok(<<"2", "0">>)

\* the "DNS -Azure" sheet is missing or unreadable, lacks a column, or has a
\* cell that is not text in the Identifier or FQDN Example column
DnsSheetUnusable ==
    \/ ~ src.readable
    \/ src.cols # DnsColumns
    \/ \E i \in 1..Len(src.rows) :
          \/ src.rows[i].Identifier.k \in {"int", "float"}
          \/ src.rows[i].Fqdn.k \in {"int", "float"}

\* the "Instance Number" sheet is missing or unreadable, or lacks a column
InstanceSheetUnusable == ~ src.readable \/ src.ncols < 4

NoPlaceholder(s) == ~ Contains(<<"{">>, s) /\ ~ Contains(<<"}">>, s)

\* C5: with a missing, unreadable or malformed lookup sheet,
\* generate_service_model_names and get_instance_number raise nothing and
\* return the empty string or a string without "{" or "}".
C5_NoRaiseOnUnusableSheet ==
    ((InUtilsNames /\ DnsSheetUnusable) \/ (InInstanceNumber /\ InstanceSheetUnusable))
    => (ret.exc = "none" /\ NoPlaceholder(ret.val))

\* the position of the key the documented matcher uses for a single role:
\* the key equal to the role, else the first key that occurs in the role, else 0
DocumentedMatch(d, role) ==
    LET exact == {i \in 1..Len(d) : d[i].key.s = role}
        inside == {i \in 1..Len(d) : Contains(d[i].key.s, role)}
    IN IF exact # {} THEN CHOOSE i \in exact : TRUE
       ELSE IF inside # {} THEN CHOOSE i \in inside : \A j \in inside : i <= j
       ELSE 0

\* C6: for a single role the formatter uses the key equal to the role when
\* there is one, wherever it stands in the mapping, and otherwise the first key
\* that is a substring of the role (AAS roles of utils.py are matched by city
\* and are not covered).
C6_ExactKeyBeforeSubstring ==
    (/\ InUtilsNames \/ InEpNames
     /\ ~ IsCombined(args.server_role)
     /\ InUtilsNames => ~ Contains(s_AAS, args.server_role)
     /\ AllStringKeys(MappingInUse))
    => LET d == MappingInUse
           m == DocumentedMatch(d, args.server_role)
       IN ret = Ok(IF m = 0 \/ d[m].val = <<>> THEN <<>>
                   ELSE DocumentedName(args.sap_region, args.sid, d[m].val, args.region_code))

\* no key of the mapping matches the role: no text key occurs in it and, for
\* an AAS role of utils.py, no text key is an AAS identifier of the city
NoKeyMatches(d, role) ==
    \A i \in 1..Len(d) :
        d[i].key.k = "str" =>
            /\ ~ Contains(d[i].key.s, role)
            /\ (InUtilsNames /\ Contains(s_AAS, role)) => ~ AasCityMatch(d[i].key.s, args.city)

\* no role of the instance table matches the role
NoInstanceRoleMatches(d, role) ==
    \A i \in 1..Len(d) :
        /\ d[i].key # s_SAP_ \o BaseRole(role)
        /\ ~ Contains(Upper(BaseRole(role)), Upper(d[i].key))

\* C7: when no mapping key matches a (sub-)role the formatter raises nothing:
\* a single role without a match gives the empty string, a combined role gives
\* the join of its matched sub-roles only (the empty string when none is
\* matched), and get_instance_number gives the empty string.
C7_UnmatchedGivesEmpty ==
    /\ ((InUtilsNames \/ InEpNames) /\ ~ IsCombined(args.server_role)
        /\ NoKeyMatches(MappingInUse, args.server_role))
       => ret = Ok(<<>>)
    /\ ((InUtilsNames \/ InEpNames) /\ IsCombined(args.server_role)
        /\ \A i \in 1..Len(SubRoles(args.server_role)) :
              NoKeyMatches(MappingInUse, SubRoles(args.server_role)[i]))
       => ret = Ok(<<>>)
    /\ (InInstanceNumber
        /\ \A i \in 1..Len(SubRoles(args.server_role)) :
              NoInstanceRoleMatches(InstanceMappingInUse, SubRoles(args.server_role)[i]))
       => ret = Ok(<<>>)

\* C9: each copy of the region table gives "e" for Sirius, "a" for U2K2, "t"
\* for Cordillera, "o" for Global, "x" for POC/Model Env and "x" for any other
\* string: get_sap_region_letter of utils.py and of excel_processor.py return
\* the documented letter, and every name generate_service_model_names returns
\* starts with it.
C9_RegionLetterTables ==
    /\ op \in {"utils.get_sap_region_letter", "excel_processor.get_sap_region_letter"}
       => ret = Ok(<<DocumentedLetter(args.sap_region)>>)
    /\ ((InUtilsNames \/ InEpNames) /\ ret.exc = "none" /\ ret.val # <<>>)
       => Head(ret.val) = DocumentedLetter(args.sap_region)

\* C9 witness: the letter "t" of Cordillera from get_sap_region_letter
C9_Witness ==
    /\ op = "utils.get_sap_region_letter"
    /\ args.sap_region = "Cordillera"
    /\ ret = Ok(<<"t">>)

\* the 'Azure Subscription' string of the call in progress ("" when missing)
SubscriptionInUse == Get(args.general_config.AzureSubscription, <<>>)

\* the subscription number: the text after the first "-" up to the next
\* space, or "01" when the string has no "-"
DocumentedSubscriptionNumber ==
    IF Contains(<<"-">>, SubscriptionInUse)
    THEN Split(Split(SubscriptionInUse, "-")[2], " ")[1]
    ELSE <<"0", "1">>

\* {azure_region_code}-sp{subscription_number}-{environment_code}-{itsg_id}-{SID}-IS01-rg
DocumentedResourceGroup ==
    LET gc == args.general_config
    IN Lower(Get(gc.AzureRegionCode, <<>>)) \o <<"-", "s", "p">> \o DocumentedSubscriptionNumber
       \o <<"-", get_environment_code(Get(gc.Environment, <<>>)), "-">>
       \o Get(gc.ITSGID, <<>>) \o <<"-">> \o Upper(Get(gc.SID, <<>>))
       \o <<"-", "I", "S", "0", "1", "-", "r", "g">>

\* the resource group names the call in progress wrote, one per written row
WrittenResourceGroups ==
    IF InProcess THEN [i \in 1..Len(ret.val) |-> ret.val[i].col19]
    ELSE [i \in 1..Len(ret.val) |-> ret.val[i].col4]

\* C8: in process_sap_data_to_excel and add_load_balancer_sheet, when the
\* 'Azure Subscription' string is missing, empty or has no "-", extracting the
\* subscription number raises nothing and the number used is "01".
C8_SubscriptionNumberDefault ==
    ((InProcess \/ InLoadBalancer) /\ ~ Contains(<<"-">>, SubscriptionInUse))
    => /\ ret.exc # "IndexError"
       /\ ret.exc = "none" =>
            \A i \in 1..Len(ret.val) : WrittenResourceGroups[i] = DocumentedResourceGroup

\* C10: the resource group name written for a server is
\* lowercase(Azure Region Code) + "-sp" + subscription_number + "-" +
\* environment_code + "-" + ITSG ID + "-" + uppercase(SID) + "-IS01-rg", with
\* environment_code "d" outside the environment table and an empty segment for
\* a missing field: process_sap_data_to_excel writes it for every server, and
\* add_load_balancer_sheet in every row it writes.
C10_ResourceGroupNameFormat ==
    /\ InProcess =>
         /\ ret.exc = "none"
         /\ Len(ret.val) = Len(args.server_data)
         /\ \A i \in 1..Len(ret.val) : WrittenResourceGroups[i] = DocumentedResourceGroup
    /\ (InLoadBalancer /\ ret.exc = "none") =>
         \A i \in 1..Len(ret.val) : WrittenResourceGroups[i] = DocumentedResourceGroup

\* the form fields of the call in progress ("" when missing)
RoleOfServer(i) == Get(args.server_data[i].ServerRole, <<>>)

\* {region code}-sp{subscription number}-{third}-{ITSG id}-{SID}-az{zone}-ppg
DocumentedPpg(third) ==
    LET gc == args.general_config
    IN Lower(Get(gc.AzureRegionCode, <<>>)) \o <<"-", "s", "p">> \o DocumentedSubscriptionNumber
       \o <<"-", third, "-">> \o Get(gc.ITSGID, <<>>) \o <<"-">> \o Upper(Get(gc.SID, <<>>))
       \o <<"-", "a", "z">> \o Get(gc.AZSelection, <<>>) \o <<"-", "p", "p", "g">>

\* C11 as stated: a row gets a proximity placement group name if and only if
\* its role contains PAS, ASCS, SCS or AAS; the name is the resource group
\* prefix (with the environment code) followed by "-az{zone}-ppg", and the cell
\* is empty for every other role.
C11_PpgForQualifyingRoles ==
    (InProcess /\ ret.exc = "none") =>
        \A i \in 1..Len(ret.val) :
            ret.val[i].col21 =
                IF \E q \in {s_PAS, s_ASCS, s_SCS, s_AAS} : Contains(q, RoleOfServer(i))
                THEN DocumentedPpg(get_environment_code(Get(args.general_config.Environment, <<>>)))
                ELSE <<>>

\* C11 amended: in every row process_sap_data_to_excel writes, the proximity
\* placement group cell holds a name if and only if the role contains PAS, ASCS
\* or SCS (a role with AAS only gets the empty string); the name is region code,
\* "-sp" + subscription number, the SAP region letter (default region Sirius),
\* ITSG id and SID, followed by "-az{zone}-ppg".
C11_PpgForPasAscsScs ==
    (InProcess /\ ret.exc = "none") =>
        \A i \in 1..Len(ret.val) :
            ret.val[i].col21 =
                IF \E q \in {s_PAS, s_ASCS, s_SCS} : Contains(q, RoleOfServer(i))
                THEN DocumentedPpg(DocumentedLetter(Get(args.general_config.SAPRegion, "Sirius")))
                ELSE <<>>

\* C11 witness: a PAS row with a name and an AAS row without one
C11_Witness ==
    /\ InProcess /\ ret.exc = "none" /\ Len(ret.val) = 2
    /\ RoleOfServer(1) = s_PAS /\ ret.val[1].col21 # <<>>
    /\ RoleOfServer(2) = s_AAS /\ ret.val[2].col21 = <<>>

\* the value the documented rule reads from the entry of a role: the Clustered
\* sub-table when the role contains "-HA" and the environment contains
\* "Production" (the Standalone one when the entry has no Clustered sub-table),
\* the Standalone sub-table otherwise; the column "Production & DR" when the
\* environment contains "Production", "Non-Production" otherwise
DocumentedInstanceValue(entry, role, env) ==
    LET production == Contains(<<"P", "r", "o", "d", "u", "c", "t", "i", "o", "n">>, env)
        clustered == Contains(<<"-", "H", "A">>, role) /\ production
        column(v) == IF production THEN v.ProductionDR ELSE v.NonProduction
        wanted == IF clustered THEN s_Clustered ELSE s_Standalone
    IN IF HasKey(entry, wanted) THEN column(Lookup(entry, wanted))
       ELSE IF HasKey(entry, s_Standalone) THEN column(Lookup(entry, s_Standalone))
       ELSE <<>>

C13_CombinedIsJoinOfSingleNumbers ==
    (InInstanceNumber /\ IsCombined(args.server_role)) =>
        LET subs == SubRoles(args.server_role)
            singles == [i \in 1..Len(subs) |->
                           get_instance_number(subs[i], args.environment_type, src).val]
        IN /\ ret.exc = "none"
           /\ ret.val \in {Join(singles, <<",">>), Join(NonEmpty(singles), <<",">>)}

\* C20: a single role with base role B uses the entry with key "SAP B" whenever
\* the table has it, also when an earlier key contains B; with the fallback
\* table, SCS gets 02 / 22 of SAP SCS.
C20_ExactInstanceKeyFirst ==
    (/\ InInstanceNumber /\ ~ IsCombined(args.server_role)
     /\ HasKey(InstanceMappingInUse, s_SAP_ \o BaseRole(args.server_role)))
    => ret = Ok(DocumentedInstanceValue(
                    Lookup(InstanceMappingInUse, s_SAP_ \o BaseRole(args.server_role)),
                    args.server_role, args.environment_type))

InAzZones == op = "sap_form.get_az_zones"
InVmSize == op = "sap_form.get_vm_size"
InRenderForm == op = "sap_form.render_form_content"
InRenderDr == op = "sap_form.render_dr_server_config"

\* the city the documented rule gives an Azure region
DocumentedCity(azure_region) ==
    IF Contains(s_Amsterdam, azure_region) \/ Contains(s_NLWE, azure_region) THEN s_Amsterdam
    ELSE IF Contains(s_Dublin, azure_region) \/ Contains(s_IENO, azure_region) THEN s_Dublin
    ELSE s_Amsterdam

\* the "AZ Zone" sheet is missing or unreadable, or lacks a column
AzSheetUnusable == ~ src.readable \/ ~ (AzColumns \subseteq src.cols)

\* the rows of the sheet in use that store a zone pair for (subscription, city)
StoredAzRows(subscription, city) ==
    IF AzSheetUnusable THEN {}
    ELSE {i \in 1..Len(src.rows) : /\ src.rows[i].Subscription = StrCell(subscription)
                                   /\ src.rows[i].Region = StrCell(city)}

\* C14: get_az_zones returns the pair the AZ sheet stores for (subscription,
\* city), the last such row standing, and ("1", "2") when no row stores one or
\* the sheet could not be loaded; the city is Amsterdam for Amsterdam/NLWE,
\* Dublin for Dublin/IENO and Amsterdam otherwise.
C14_StoredPairOrDefault ==
    InAzZones =>
        LET hits == StoredAzRows(args.azure_subscription, DocumentedCity(args.azure_region))
            last == CHOOSE i \in hits : \A j \in hits : j <= i
        IN IF hits = {} THEN ret = Ok(<< <<"1">>, <<"2">> >>)
           ELSE ret = Ok(<<PyStr(src.rows[last].PrimaryZone), PyStr(src.rows[last].HAZone)>>)

C14_Witness ==
    /\ InAzZones /\ args.azure_region = s_IENO /\ args.azure_subscription = s_Sub02
    /\ src.readable /\ Len(src.rows) = 2
    /\ ret = Ok(<< <<"2">>, <<"3">> >>)

\* the number of roles containing "AAS" among the first i roles
AasUpTo(roles, i) == Cardinality({j \in 1..i : Contains(s_AAS, roles[j])})

\* the zone the documented rule assigns: the k-th AAS server gets the HA zone
\* for odd k and the primary zone for even k, any other server the primary zone
DocumentedZone(role, k, pair) ==
    IF Contains(s_AAS, role) THEN (IF k % 2 = 1 THEN pair[2] ELSE pair[1]) ELSE pair[1]

\* C15: on the production form the k-th AAS server, in form order, is assigned
\* the HA zone for odd k and the primary zone for even k, and every other
\* server the primary zone; the enabled DR servers follow the same rule with
\* their own counter and the zone pair of the DR city.
C15_AasZonesAlternate ==
    /\ InRenderForm =>
           LET pair == get_az_zones(args.azure_subscription, args.azure_region, load_az_zone_data(src))
               roles == args.server_roles
           IN ret = Ok([i \in 1..Len(roles) |-> DocumentedZone(roles[i], AasUpTo(roles, i), pair)])
    /\ InRenderDr =>
           LET dr_city == IF DocumentedCity(args.azure_region) = s_Amsterdam THEN s_Dublin ELSE s_Amsterdam
               pair == get_az_zones(args.azure_subscription, dr_city, load_az_zone_data(src))
               enabled == args.dr_servers_enabled
               roles == [j \in 1..Len(enabled) |-> args.dr_server_roles[enabled[j] + 1]]
           IN ret = Ok([j \in 1..Len(roles) |-> DocumentedZone(roles[j], AasUpTo(roles, j), pair)])

\* C18: when the source sheet of a lookup (DNS codes, instance numbers, zone
\* pairs, VM sizes) is unreadable or malformed, so that reading it fails, the
\* caller works with the non-empty hardcoded fallback table of that lookup.
C18_FallbackTablePerLookup ==
    /\ (InUtilsNames /\ DnsReadFails(src)) =>
           (LoadIdentifierMapping(src) = DnsFallback /\ DnsFallback # <<>>)
    /\ (InInstanceNumber /\ InstanceReadFails(src)) =>
           (LoadInstanceMapping(src) = InstanceFallback /\ InstanceFallback # <<>>)
    /\ (InAzZones /\ AzReadFails(src)) => load_az_zone_data(src) # <<>>
    /\ (InVmSize /\ SkuReadFails(src)) => load_vm_sku_data(src) # <<>>

\* a run of process_sap_data_to_excel or of add_other_sheets
InProcessor(o) == o \in {"excel_processor.__main__", "utils.add_other_sheets"}

\* C16: when the JSON form file or the Excel template does not exist,
\* process_sap_data_to_excel and add_other_sheets raise FileNotFoundError
\* before any file or workbook is loaded or changed and the directory is left
\* as it was; a run that raises anything leaves the directory as it was, and
\* the workbook is saved only as the last operation of a run that succeeds.
C16_NoPartialOutput ==
    [][ InProcessor(op') =>
          /\ (args'.json_file_path \notin DOMAIN files \/ args'.template_path \notin DOMAIN files)
                 => (ret'.exc = "FileNotFoundError" /\ io' = <<>> /\ files' = files)
          /\ (ret'.exc # "none") => (files' = files)
          /\ \A i \in DOMAIN io' : (io'[i] = "save") => (i = Len(io') /\ ret'.exc = "none")
      ]_vars

\* the processor was run with the JSON file present and the template missing
C16_Witness ==
    /\ op = "excel_processor.__main__"
    /\ args.json_file_path \in DOMAIN files
    /\ args.template_path \notin DOMAIN files
    /\ ret.exc = "FileNotFoundError"
    /\ args.output_path \notin DOMAIN files

\* a run of the processor failed after the template was loaded
C16_FailureWhileProcessing ==
    /\ op = "excel_processor.__main__"
    /\ ret.exc \notin {"none", "FileNotFoundError"}
    /\ io = <<"json.load", "load_workbook">>


\* the submissions that wrote the file name (0: not written by a submission)
SubmissionsWriting(name) == files[name].writers \ {0}

\* C17: the names of the files of a submission (the JSON form file and the
\* Excel build sheet) carry SID, environment and a timestamp, so no file name
\* is written by two distinct submissions, and a submission processes the
\* JSON file it wrote itself.
C17_NoSharedFileName ==
    /\ \A name \in DOMAIN files : Cardinality(SubmissionsWriting(name)) <= 1
    /\ \A s \in Sessions :
           (sessions[s].just_submitted /\ sessions[s].json_file_path \in DOMAIN files)
               => SubmissionsWriting(sessions[s].json_file_path) = {sessions[s].submission}


\* the session s saves over the file of kind k, which exists
SavesOver(s, k) ==
    /\ op' = "sap_form.save_file"
    /\ args' = [session |-> s, kind |-> k]
    /\ clock' = clock + 1
    /\ FilePath(k) \in DOMAIN files

\* C19: in the File Management tab a replacement of a configuration file that
\* exists is saved only after the session clicked "Download Current Version"
\* since it last saved that file.
C19_UploadOnlyAfterDownload ==
    [][ \A s \in Sessions, k \in FileKinds : SavesOver(s, k) => (sessions[s].seen[k] # -1) ]_vars

\* the copy a session replaces a file from is a copy of the version on disk
C19_ReplacesTheVersionSeen ==
    [][ \A s \in Sessions, k \in FileKinds :
            SavesOver(s, k) => (sessions[s].seen[k] \in {-1, files[FilePath(k)].data})
      ]_vars

\* the flag is the gate the code implements: a save happens with the flag
\* set and leaves it reset while the file exists
C19_FlagIsTheGate ==
    [][ \A s \in Sessions, k \in FileKinds :
            (op' = "sap_form.save_file" /\ args' = [session |-> s, kind |-> k] /\ clock' = clock + 1)
                => (sessions[s].downloaded[k] /\ ~ sessions'[s].downloaded[k])
      ]_vars


\* the city of the call is neither Amsterdam nor Dublin
OtherCity == ~ Contains(s_Amsterdam, args.city) /\ ~ Contains(s_Dublin, args.city)

\* C21: with aas_counter = N and a city that is neither Amsterdam nor Dublin,
\* a single AAS role is named with the Amsterdam numbering: the DNS code of
\* the returned name is 102 + N - 1 as three digits followed by "a".
C21_AasDefaultsToAmsterdam ==
    (/\ InUtilsNames
     /\ Contains(s_AAS, args.server_role) /\ ~ IsCombined(args.server_role)
     /\ args.aas_counter.given
     /\ OtherCity)
    => ret = Ok(DocumentedName(args.sap_region, args.sid,
                               Format03d(AmsterdamBase + args.aas_counter.n - 1) \o <<"a">>,
                               args.region_code))

\* the DR servers enabled on the production form and its number of servers
ProdEnabled(s) == sessions[s].dr_servers_enabled[s_prod].v
ProdNumServers(s) == sessions[s].num_servers[s_prod].v
ProdFormRan(s) == sessions[s].dr_servers_enabled[s_prod].present

\* C22: after the DR reconciliation of a run of the production form, whatever
\* changes of the number of servers and removals of DR servers came before,
\* dr_servers_enabled is strictly increasing and each of its indices i
\* satisfies 0 <= i < num_servers.
C22_EnabledSortedAndInRange ==
    \A s \in Sessions : ProdFormRan(s) =>
        /\ \A i \in 1..(Len(ProdEnabled(s)) - 1) : ProdEnabled(s)[i] < ProdEnabled(s)[i + 1]
        /\ \A i \in DOMAIN ProdEnabled(s) :
               0 <= ProdEnabled(s)[i] /\ ProdEnabled(s)[i] < ProdNumServers(s)

\* the number of servers was lowered after a DR server in the middle had
\* been removed
C22_Witness ==
    /\ op = "sap_form.update_num_servers"
    /\ ProdNumServers("A") = 3
    /\ ProdEnabled("A") = <<0, 2>>

\* C23: a DR server taken out by remove_dr_server stays out of
\* dr_servers_enabled on every later run for as long as the number of
\* servers does not grow.
C23_RemovedStaysRemoved ==
    \A s \in Sessions : ProdFormRan(s) => (sessions[s].removed \cap Elements(ProdEnabled(s)) = {})

\* the keys of the session state that belong to the tab: f"..._{tab_key}" and
\* f"..._{tab_key}_{i}"
BelongsToTab(key, tab_key) ==
    \/ EndsWith(key, <<"_">> \o tab_key)
    \/ \E i \in 0..MaxNumServers : EndsWith(key, <<"_">> \o tab_key \o <<"_">> \o IntToStr(i))

C24_TabLevelKeysCleared ==
    (op = "sap_form.reset") =>
        /\ \A key \in ret.val : ~ EndsWith(key, <<"_">> \o args.tab_key)
        /\ (args.tab_key = s_nonprod) => (TabKey(s_num_servers, s_prod) \in ret.val)

InSelectSheets == op = "utils.add_other_sheets.sheets"

\* the role text that makes a server trigger the family of a configuration
\* with versions
FamilyTrigger(config) == IF config.type = "db2" THEN s_DB2 ELSE config.base_role

\* the version submitted for the family: that of its first server
FamilyVersion(config, server_data) ==
    LET family == {i \in DOMAIN server_data :
                      Contains(FamilyTrigger(config), Get(server_data[i].ServerRole, <<>>))}
    IN IF family = {} THEN <<>>
       ELSE Get(server_data[CHOOSE i \in family : \A j \in family : i <= j].ServerRoleVersion, <<>>)

\* the sheet of the workbook that became the sheet titled target_name
KeptAs(workbook, target_name) == {sh.was : sh \in {workbook[i] : i \in {j \in DOMAIN workbook : workbook[j].title = target_name}}}

\* C25: in a production run, for each layout family with versions (HANA,
\* DB2 DB, MaxDB, APO, IQ, Optimizer), when a server of the family was
\* submitted with version v and the template holds a sheet named
\* "{base_role}_{v} Prod", that sheet is the one kept under the family's
\* target name.
C25_VersionSheetSelected ==
    (InSelectSheets /\ LayoutIsProduction(args.general_config)) =>
        \A n \in DOMAIN SheetConfigs :
            LET config == SheetConfigs[n]
                v == FamilyVersion(config, args.server_data)
                name == config.base_role \o <<"_">> \o v \o <<" ">> \o s_Prod
                at == FindSheet(args.workbook, name)
            IN (config.use_version_logic /\ v # <<>> /\ at # 0)
                   => (KeptAs(ret.val, config.target_name) = {args.workbook[at].title})

\* the sheets of the template that are variants of the family of a
\* configuration: "{base_role}... Prod" and "{base_role}... Non_Prod", or the
\* sheets named in its sheet_mapping
IsVariant(config, was) ==
    IF config.use_version_logic
    THEN /\ StartsWith(Lower(was), Lower(config.base_role))
         /\ (EndsWith(Lower(was), <<" ">> \o s_prod) \/ EndsWith(Lower(was), <<" ">> \o s_non_prod))
    ELSE \E i \in DOMAIN config.sheet_mapping : Lower(config.sheet_mapping[i].key) = Lower(was)

\* the sheets of a workbook that are not variants of the family
Outside(config, workbook) == SelectSeq(workbook, LAMBDA sh : ~ IsVariant(config, sh.was))

\* the variants of the family left in a workbook
VariantsLeft(config, workbook) == {workbook[i] : i \in {j \in DOMAIN workbook : IsVariant(config, workbook[j].was)}}

\* C26: when add_other_sheets returns, a layout family that no submitted role
\* triggers has none of its variant sheets left; a family that a role
\* triggers has at most one left, titled with the family's target name; and
\* the step of a family neither removes nor renames a sheet of another family.
C26_OneTargetSheetPerFamily ==
    InSelectSheets =>
        \A n \in DOMAIN SheetConfigs :
            LET config == SheetConfigs[n]
                left == VariantsLeft(config, ret.val)
            IN /\ ConfigCondition(config, RoleFlags(args.server_data))
                      => (Cardinality(left) <= 1 /\ \A sh \in left : sh.title = config.target_name)
               /\ ~ ConfigCondition(config, RoleFlags(args.server_data)) => (left = {})
               /\ Outside(config, io[n]) = Outside(config, io[n + 1])

\* a production run with a HANA server on a template with three HANA sheets
\* and DB2 sheets that no role asks for
C26_Witness ==
    /\ InSelectSheets
    /\ LayoutIsProduction(args.general_config)
    /\ RoleFlags(args.server_data).has_hana /\ ~ RoleFlags(args.server_data).has_db2
    /\ {s_HANA_Prod, s_HANA_v2_Prod, s_hana_non_prod, s_DB2_DB_Prod, s_ASCS_Prod}
           \subseteq {args.workbook[i].title : i \in DOMAIN args.workbook}
    /\ KeptAs(ret.val, s_FS_Layout_HANA) # {}
    /\ Len(ret.val) < Len(args.workbook) - 2

\* the kinds of load balancer a role asks for, ASCS first
LbKinds(server_role) ==
    (IF Contains(s_ASCS, server_role) THEN <<"ASCS">> ELSE <<>>)
        \o (IF Contains(s_DB2, server_role) \/ Contains(s_HANA, server_role)
               \/ Contains(s_MaxDB, server_role)
            THEN <<"DB">> ELSE <<>>)

\* the kinds of all the servers, in server order
RECURSIVE LbKindsOf(_)
LbKindsOf(servers) ==
    IF servers = <<>> THEN <<>>
    ELSE LbKinds(Get(Head(servers).ServerRole, <<>>)) \o LbKindsOf(Tail(servers))

\* C27: add_load_balancer_sheet writes one row for each (server, kind) pair,
\* kind ASCS for a role with ASCS and kind DB for a role with DB2, HANA or
\* MaxDB, into consecutive rows from row 13 on, in server order and ASCS
\* before DB; nothing is written when the sheet is absent.
C27_OneRowPerServerAndKind ==
    InLoadBalancer =>
        /\ ret.exc = "none"
        /\ LET kinds == IF args.has_lb_sheet THEN LbKindsOf(args.primary_servers) ELSE <<>>
           IN /\ Len(ret.val) = Len(kinds)
              /\ \A k \in DOMAIN ret.val :
                    ret.val[k].row = FirstLbRow + k - 1 /\ ret.val[k].col13 = kinds[k]

\* when the naming of no server raises, the rows are those of the claim
C27_RowsWhenNothingRaises ==
    (InLoadBalancer /\ ret.exc = "none") =>
        LET kinds == IF args.has_lb_sheet THEN LbKindsOf(args.primary_servers) ELSE <<>>
        IN /\ Len(ret.val) = Len(kinds)
           /\ \A k \in DOMAIN ret.val :
                 ret.val[k].row = FirstLbRow + k - 1 /\ ret.val[k].col13 = kinds[k]


InSuggestedDrRole == op = "sap_form.get_suggested_dr_role"

\* the DR roles among the SERVER_ROLES of the form options
AvailableDrRoles(form_options) ==
    {role \in {Get(form_options.SERVER_ROLES, <<>>)[i] : i \in DOMAIN Get(form_options.SERVER_ROLES, <<>>)} :
        Contains(s_minus_DR, role)}

\* C28: get_suggested_dr_role returns '' for a primary role that already
\* contains 'DR', returns '{primary}-DR' when that role is available, returns
\* 'ASCS-DR' for the combined role 'ASCS+PAS' whenever 'ASCS-DR' is available,
\* whatever the order of SERVER_ROLES, and always returns '' or an available
\* DR role.
C28_SuggestedDrRole ==
    InSuggestedDrRole =>
        LET primary == args.primary_server_role
            available == AvailableDrRoles(args.form_options)
        IN /\ Contains(s_DR, primary) => (ret.val = <<>>)
           /\ (~ Contains(s_DR, primary) /\ (primary \o s_minus_DR) \in available)
                  => (ret.val = primary \o s_minus_DR)
           /\ (primary = s_ASCS_PAS /\ s_ASCS_DR \in available) => (ret.val = s_ASCS_DR)
           /\ (ret.val = <<>> \/ ret.val \in available)

\* the parts of C28 that do not depend on the order of SERVER_ROLES
C28_ExactOrEmptyOrAvailable ==
    InSuggestedDrRole =>
        LET primary == args.primary_server_role
            available == AvailableDrRoles(args.form_options)
        IN /\ Contains(s_DR, primary) => (ret.val = <<>>)
           /\ (~ Contains(s_DR, primary) /\ (primary \o s_minus_DR) \in available)
                  => (ret.val = primary \o s_minus_DR)
           /\ (ret.val = <<>> \/ ret.val \in available)

\* the zones offered by the "AZ Selection - Zone" box
AzZoneSet == {AzZoneOptions[i] : i \in DOMAIN AzZoneOptions}

\* C29: for every server of the production form, primary or DR, AAS or not,
\* and every zone pair of the AZ mapping, computing the preselected zone index
\* raises nothing and gives an index into ['1', '2', '3']; a suggested zone
\* that is not one of these gives index 0, the zone '1'.
C29_ZoneIndexNeverRaises ==
    /\ InRenderForm =>
           LET pair == get_az_zones(args.azure_subscription, args.azure_region, load_az_zone_data(src))
           IN /\ ret.exc = "none"
              /\ Len(ret.val) = Len(args.server_roles)
              /\ \A i \in DOMAIN ret.val :
                    /\ ret.val[i] \in AzZoneSet
                    /\ (pair[1] \notin AzZoneSet /\ pair[2] \notin AzZoneSet) => ret.val[i] = AzZoneOptions[1]
    /\ InRenderDr =>
           LET dr_city == IF Contains(s_bnlwe, Lower(get_region_code(args.azure_region))) THEN s_Dublin ELSE s_Amsterdam
               pair == get_az_zones(args.azure_subscription, dr_city, load_az_zone_data(src))
           IN /\ ret.exc = "none"
              /\ Len(ret.val) = Len(args.dr_servers_enabled)
              /\ \A j \in DOMAIN ret.val :
                    /\ ret.val[j] \in AzZoneSet
                    /\ (pair[1] \notin AzZoneSet /\ pair[2] \notin AzZoneSet) => ret.val[j] = AzZoneOptions[1]

\* the DR servers and the AAS servers of the primary region, whose lookup is
\* guarded, always get a zone of the box
C29_GuardedLookups ==
    /\ InRenderDr => (ret.exc = "none" /\ \A j \in DOMAIN ret.val : ret.val[j] \in AzZoneSet)
    /\ (InRenderForm /\ \A i \in DOMAIN args.server_roles : Contains(s_AAS, args.server_roles[i]))
           => (ret.exc = "none" /\ \A i \in DOMAIN ret.val : ret.val[i] \in AzZoneSet)
====
